---- MODULE Spec2Model ----
(***************************************************************************)
(* Model of the dinosaur ecosystem of the AR Sandbox: the agent registry,  *)
(* the per-agent AI state machine, the animation driver, the movement      *)
(* integrator and the tick that runs them (DinosaurEcosystem.cpp), with    *)
(* the species catalog and the direction classifier (Dinosaur.cpp).        *)
(*                                                                         *)
(* Numbers.  The program computes in float/double; the model computes in   *)
(* fixed point on integer grids that make every constant of the program an *)
(* integer:                                                                *)
(*   time      1 unit = 1/300 s        (frame time 1/12 s = 25 units)      *)
(*   length    1 unit = 1/1200 world   (0.01 world = 12 units)             *)
(*   speed     1 unit = 1/4 world/s    (so speed * time is a length)       *)
(*   alpha     1 unit = 1/600          (alpha -= dt * 0.5 is alpha - dt)   *)
(*   random    a draw r in [0,1) is its numerator over 100                 *)
(*   unit vectors are kept in thousandths                                  *)
(* Divisions truncate toward zero.  Distances are compared by their        *)
(* squares, which is exact.                                                *)
(*                                                                         *)
(* Inputs.  Agents, threat points and the random draws are taken from the  *)
(* small sets named below; they keep every agent on the line y = 0, which  *)
(* is the middle of the default bounds.  The operators themselves are      *)
(* written for three coordinates, as in the source.                        *)
(***************************************************************************)
EXTENDS Integers, Sequences, FiniteSets, TLC

TimeScale == 12 * 25
PosScale == 4 * TimeScale
VelScale == PosScale \div TimeScale
AlphaScale == 2 * TimeScale
RandScale == 10 * 10
UnitScale == 10 * 10 * 10

\* n tenths of a world length, of a second, of a world length per second
Len10(n) == (n * PosScale) \div 10
Sec10(n) == (n * TimeScale) \div 10
Speed10(n) == (n * VelScale) \div 10
\* n hundredths of a world length
Len100(n) == (n * PosScale) \div 100

\* C++ division of integers in fixed point: truncation toward zero
TDiv(a, b) == IF a >= 0 THEN a \div b ELSE -((-a) \div b)

Max(a, b) == IF a >= b THEN a ELSE b
Min(a, b) == IF a <= b THEN a ELSE b

(***************************************************************************)
(* Dinosaur.h: the enumerations                                            *)
(***************************************************************************)
DINO_TRICERATOPS == "DINO_TRICERATOPS"
DINO_STEGOSAURUS == "DINO_STEGOSAURUS"
DINO_PARASAUROLOPHUS == "DINO_PARASAUROLOPHUS"
DINO_GALLIMIMUS == "DINO_GALLIMIMUS"
DINO_TREX == "DINO_TREX"
DINO_VELOCIRAPTOR == "DINO_VELOCIRAPTOR"
DINO_RAPTOR_BLUE == "DINO_RAPTOR_BLUE"
DINO_RAPTOR_GREEN == "DINO_RAPTOR_GREEN"
DINO_RAPTOR_RED == "DINO_RAPTOR_RED"
DinosaurSpecies ==
  {DINO_TRICERATOPS, DINO_STEGOSAURUS, DINO_PARASAUROLOPHUS, DINO_GALLIMIMUS,
   DINO_TREX, DINO_VELOCIRAPTOR, DINO_RAPTOR_BLUE, DINO_RAPTOR_GREEN,
   DINO_RAPTOR_RED}

ROLE_HERBIVORE == "ROLE_HERBIVORE"
ROLE_PREDATOR == "ROLE_PREDATOR"

ACTION_IDLE == "ACTION_IDLE"
ACTION_WALK == "ACTION_WALK"
ACTION_RUN == "ACTION_RUN"
ACTION_ATTACK == "ACTION_ATTACK"
ACTION_DIE == "ACTION_DIE"
ACTION_TAKEDAMAGE == "ACTION_TAKEDAMAGE"
DinosaurAction ==
  {ACTION_IDLE, ACTION_WALK, ACTION_RUN, ACTION_ATTACK, ACTION_DIE,
   ACTION_TAKEDAMAGE}

DIR_N == 0
DIR_NE == 1
DIR_E == 2
DIR_SE == 3
DIR_S == 4
DIR_SW == 5
DIR_W == 6
DIR_NW == 7
DIR_NUM_DIRECTIONS == 8

AI_IDLE == "AI_IDLE"
AI_WANDERING == "AI_WANDERING"
AI_GRAZING == "AI_GRAZING"
AI_FLEEING == "AI_FLEEING"
AI_HUNTING == "AI_HUNTING"
AI_ATTACKING == "AI_ATTACKING"
AI_DYING == "AI_DYING"
AI_DEAD == "AI_DEAD"
DinosaurAIState ==
  {AI_IDLE, AI_WANDERING, AI_GRAZING, AI_FLEEING, AI_HUNTING, AI_ATTACKING,
   AI_DYING, AI_DEAD}

(***************************************************************************)
(* Geometry (Types.h Point, Vector; Geometry::mag)                         *)
(***************************************************************************)
Vec(x, y, z) == [x |-> x, y |-> y, z |-> z]
Zero == Vec(0, 0, 0)
VSub(a, b) == Vec(a.x - b.x, a.y - b.y, a.z - b.z)
VAdd(a, b) == Vec(a.x + b.x, a.y + b.y, a.z + b.z)
VTimes(a, k) == Vec(a.x * k, a.y * k, a.z * k)
VDiv(a, k) == Vec(TDiv(a.x, k), TDiv(a.y, k), TDiv(a.z, k))
Mag2(v) == v.x * v.x + v.y * v.y + v.z * v.z

RECURSIVE SqrtBetween(_, _, _)
SqrtBetween(n, lo, hi) ==
  IF lo >= hi THEN lo
  ELSE LET mid == (lo + hi + 1) \div 2
       IN  IF mid * mid <= n THEN SqrtBetween(n, mid, hi)
           ELSE SqrtBetween(n, lo, mid - 1)
ISqrt(n) == SqrtBetween(n, 0, 46340)
Mag(v) == ISqrt(Mag2(v))

\* mag(v) > 0.001 is false: v is given in units of 1/scale
Negligible(v, scale) == Mag2(v) <= (scale * scale) \div 1000000
\* mag(v) < r, with r in the units of v
MagLess(v, r) == Mag2(v) < r * r

\* v / mag(v) in thousandths; a short vector is refined first so that the
\* truncated root does not dominate
UnitOf(v) ==
  LET w == IF Mag2(v) < 30 * 30 THEN VTimes(v, UnitScale) ELSE v
  IN  VDiv(VTimes(w, UnitScale), Mag(w))

(***************************************************************************)
(* Dinosaur.cpp: the species catalog.  Lengths and speeds of the table are *)
(* world units ("body lengths") and are used as such by the ecosystem.     *)
(***************************************************************************)
framesPerAction == 15
Frames == [a \in DinosaurAction |-> framesPerAction]

Info(role, walk10, run10, sight10, attack10) ==
  [role |-> role, walkSpeed |-> Speed10(walk10), runSpeed |-> Speed10(run10),
   sightRange |-> Len10(sight10), attackRange |-> Len10(attack10),
   framesPerAction |-> Frames]

ShippedTable ==
  [s \in DinosaurSpecies |->
     CASE s = DINO_TRICERATOPS     -> Info(ROLE_HERBIVORE, 20, 40, 150, 0)
       [] s = DINO_STEGOSAURUS     -> Info(ROLE_HERBIVORE, 15, 30, 120, 0)
       [] s = DINO_PARASAUROLOPHUS -> Info(ROLE_HERBIVORE, 25, 50, 180, 0)
       [] s = DINO_GALLIMIMUS      -> Info(ROLE_HERBIVORE, 30, 60, 200, 0)
       [] s = DINO_TREX            -> Info(ROLE_PREDATOR, 15, 40, 250, 20)
       [] s = DINO_VELOCIRAPTOR    -> Info(ROLE_PREDATOR, 25, 55, 180, 15)
       [] s = DINO_RAPTOR_BLUE     -> Info(ROLE_PREDATOR, 25, 55, 180, 15)
       [] s = DINO_RAPTOR_GREEN    -> Info(ROLE_PREDATOR, 25, 55, 180, 15)
       [] s = DINO_RAPTOR_RED      -> Info(ROLE_PREDATOR, 25, 55, 180, 15)]

(***************************************************************************)
(* A catalog for exercising the death and respawn code.  With the shipped  *)
(* table every predator sees at least twice as far as it reaches, and the  *)
(* kill of the attack resolution then never fires.  This table is the      *)
(* shipped one with the predators' ranges replaced: reach 0.02 (the reach  *)
(* of the kill scenario of the specification) and sight 0.03.              *)
(***************************************************************************)
ShortSightedTable ==
  [s \in DinosaurSpecies |->
     IF ShippedTable[s].role = ROLE_PREDATOR
     THEN [ShippedTable[s] EXCEPT !.sightRange = Len100(3),
                                  !.attackRange = Len100(2)]
     ELSE ShippedTable[s]]

\* the same with a Die animation of two frames, which shortens a death
QuickDeathTable ==
  [s \in DinosaurSpecies |->
     [ShortSightedTable[s] EXCEPT !.framesPerAction[ACTION_DIE] = 1 + 1]]

(***************************************************************************)
(* State                                                                   *)
(***************************************************************************)
VARIABLES
  dinosaurs,          \* std::vector<Dinosaur>: the registry, in spawn order
  nextDinosaurId,     \* the next id to hand out
  detectedHands,      \* the threat points set by the hand tracker
  heightField,        \* what the depth image renderer answers (external)
  speciesInfoTable,   \* the catalog in force
  ticks,              \* number of update() calls so far
  scenario,           \* the inputs explored: tick lengths, hand lists, and
                      \* the number of update() calls
  pending,            \* the spawnDinosaur calls not made yet
  steps,              \* the run of the last update(): see UpdateFrom
  search,             \* the last search of spawnDinosaurRandom: see SearchOutcomes
  facing,             \* the last call of calculateDirection: see Classify
  terrainQuery,       \* the TerrainQuery object and its last query
  scan                \* the last scan of the registry: see ScanThreat, ScanPrey

vars ==
  <<dinosaurs, nextDinosaurId, detectedHands, heightField, speciesInfoTable,
    ticks, scenario, pending, steps, search, facing, terrainQuery, scan>>

getSpeciesInfo(species) == speciesInfoTable[species]
isPredator(species) == getSpeciesInfo(species).role = ROLE_PREDATOR
isHerbivore(species) == getSpeciesInfo(species).role = ROLE_HERBIVORE

(***************************************************************************)
(* DinosaurEcosystem: the parameters set by the constructor                *)
(***************************************************************************)
\* the bounds the constructor sets
DefaultBounds ==
  [minX |-> -Len10(5), maxX |-> Len10(5), minY |-> -Len10(4),
   maxY |-> Len10(4), minZ |-> -Len10(200), maxZ |-> Len10(1000)]
\* the bounds in force: the constructor's, or those given to setBounds
\* before the first spawn
bounds == scenario.bounds
lavaElevationThreshold == -Len10(100)
waterAvoidanceDepth == Len10(5)
handFleeRadius == Len100(15)
respawnDelay == Sec10(80)
animationSpeed == 12
frameTime == TimeScale \div animationSpeed

(***************************************************************************)
(* The terrain oracle.  DepthImageRenderer::getHeightAt is not part of the *)
(* ecosystem; the model lets it answer from one of a few height fields:    *)
(* level ground, lava west of the centre line, lava everywhere.            *)
(***************************************************************************)
GroundZ == Len100(1)
LavaZ == -Len10(110)
HeightFields == {"ground", "lavaWest", "lavaAll"}
getHeightAt(x, y) ==
  CASE heightField = "ground"   -> GroundZ
    [] heightField = "lavaWest" -> IF x < 0 THEN LavaZ ELSE GroundZ
    [] heightField = "lavaAll"  -> LavaZ

queryTerrain(pos) ==
  LET elevation == getHeightAt(pos.x, pos.y)
  IN  [elevation |-> elevation, waterDepth |-> 0,
       isLava |-> elevation < lavaElevationThreshold]

isPositionSafe(pos) ==
  IF \/ pos.x < bounds.minX \/ pos.x > bounds.maxX
     \/ pos.y < bounds.minY \/ pos.y > bounds.maxY
  THEN FALSE
  ELSE LET terrain == queryTerrain(pos)
       IN  IF terrain.isLava THEN FALSE
           ELSE IF terrain.waterDepth > waterAvoidanceDepth THEN FALSE
           ELSE TRUE

boundsCenter(z) ==
  Vec(TDiv(bounds.minX + bounds.maxX, 2), TDiv(bounds.minY + bounds.maxY, 2), z)

(***************************************************************************)
(* Inputs of the model                                                     *)
(***************************************************************************)
\* random draws, as numerators over 100
SpawnDraws == {25, 75}           \* x of a sampled spawn position
LineDraw == RandScale \div 2                 \* the draw that keeps y on the line
DirectionDraws == {25}           \* initial facing: East
TimerDraws == {50}               \* initial state timer
JitterDraws == {0, 99}           \* flee jitter along x
DwellDraws == {0, 99}            \* idle and grazing dwell
GrazeDraws == {0, 50}            \* grazing or wandering
WanderAngleDraws == {0, 50}      \* wander angle: 0 and pi
WanderDistDraws == {50}          \* wander distance
\* what an uninitialized Point component may hold
UninitZ == {0, Len10(10)}

(***************************************************************************)
(* findValidSpawnPosition.  Each attempt of the loop draws afresh: it      *)
(* returns the sample when that is safe and goes on to the next attempt    *)
(* otherwise; the centre is returned when the attempts are used up.  So    *)
(* attempt k is made when k = 1 or an unsafe sample can be drawn, and the  *)
(* fallback is reached when an unsafe sample can be drawn.  An outcome is  *)
(* the position returned, the number of samples drawn, and whether a       *)
(* sample was found.                                                       *)
(***************************************************************************)
spawnAttempts == 100

\* a variant that leaves the elevation of the sample at zero
SpawnSampleAtZero(rx, ry) ==
  LET x == bounds.minX + TDiv(rx * (bounds.maxX - bounds.minX), RandScale)
      y == bounds.minY + TDiv(ry * (bounds.maxY - bounds.minY), RandScale)
  IN  Vec(x, y, 0)

SpawnSample(rx, ry) ==
  LET x == bounds.minX + TDiv(rx * (bounds.maxX - bounds.minX), RandScale)
      y == bounds.minY + TDiv(ry * (bounds.maxY - bounds.minY), RandScale)
  IN  Vec(x, y, queryTerrain(Vec(x, y, 0)).elevation)

SpawnSamples == {SpawnSample(rx, LineDraw) : rx \in SpawnDraws}

\* a variant whose loop makes one attempt more
SearchOutcomesOneMore ==
  LET center == boundsCenter(0)
      unsafe == \E p \in SpawnSamples : ~isPositionSafe(p)
      made == {k \in 1..(spawnAttempts + 1) : k = 1 \/ unsafe}
  IN  {[pos |-> p, attempts |-> k, found |-> TRUE] :
         k \in made, p \in {q \in SpawnSamples : isPositionSafe(q)}}
        \cup (IF unsafe
              THEN {[pos |-> [center EXCEPT !.z = queryTerrain(center).elevation],
                     attempts |-> (spawnAttempts + 1), found |-> FALSE]}
              ELSE {})

\* the outcomes of the loop and the fallback
SearchOutcomes ==
  LET center == boundsCenter(0)
      unsafe == \E p \in SpawnSamples : ~isPositionSafe(p)
      made == {k \in 1..spawnAttempts : k = 1 \/ unsafe}
  IN  {[pos |-> p, attempts |-> k, found |-> TRUE] :
         k \in made, p \in {q \in SpawnSamples : isPositionSafe(q)}}
        \cup (IF unsafe
              THEN {[pos |-> [center EXCEPT !.z = queryTerrain(center).elevation],
                     attempts |-> spawnAttempts, found |-> FALSE]}
              ELSE {})

findValidSpawnPosition == {r.pos : r \in SearchOutcomes}

(***************************************************************************)
(* spawnDinosaur                                                           *)
(***************************************************************************)
NewDinosaur(species, id, position, dirDraw, timerDraw) ==
  [species |-> species, id |-> id,
   position |-> position, velocity |-> Zero, targetPosition |-> position,
   targetElevation |-> position.z,
   currentAction |-> ACTION_IDLE,
   direction |-> TDiv(dirDraw * 8, RandScale) % 8,
   currentFrame |-> 0, animationTimer |-> 0, frameTime |-> frameTime,
   aiState |-> AI_IDLE, targetDinoId |-> 0,
   stateTimer |-> TDiv(timerDraw * Sec10(20), RandScale),
   respawnTimer |-> 0,
   isAlive |-> TRUE, isVisible |-> TRUE, alpha |-> AlphaScale]

(***************************************************************************)
(* findNearestThreat, findNearestPrey: the scans, in registry order        *)
(***************************************************************************)
\* dist < distance, where distance starts at 999999.0
Closer(d2, best) == ~best.found \/ d2 < best.dist2

RECURSIVE PredatorScan(_, _, _, _)
PredatorScan(ds, dino, k, best) ==
  IF k > Len(ds) THEN best
  ELSE LET other == ds[k]
           diff == VSub(other.position, dino.position)
           info == getSpeciesInfo(dino.species)
       IN  IF ~other.isAlive \/ other.id = dino.id
           THEN PredatorScan(ds, dino, k + 1, best)
           ELSE IF /\ isPredator(other.species)
                   /\ MagLess(diff, info.sightRange)
                   /\ Closer(Mag2(diff), best)
           THEN PredatorScan(ds, dino, k + 1,
                  [found |-> TRUE, threatPos |-> other.position,
                   dist2 |-> Mag2(diff)])
           ELSE PredatorScan(ds, dino, k + 1, best)

RECURSIVE HandScan(_, _, _)
HandScan(dino, k, best) ==
  IF k > Len(detectedHands) THEN best
  ELSE LET hand == detectedHands[k]
           diff == VSub(hand, dino.position)
       IN  IF MagLess(diff, handFleeRadius) /\ Closer(Mag2(diff), best)
           THEN HandScan(dino, k + 1,
                  [found |-> TRUE, threatPos |-> hand, dist2 |-> Mag2(diff)])
           ELSE HandScan(dino, k + 1, best)

NoThreat == [found |-> FALSE, threatPos |-> Zero, dist2 |-> 0]

\* a variant that leaves the predators out of the scan
findNearestThreatWithoutPredators(ds, dino) ==
  LET afterHands == HandScan(dino, 1, NoThreat)
      terrain == queryTerrain(dino.position)
  IN  IF terrain.isLava
      THEN [found |-> TRUE,
            threatPos |-> [dino.position EXCEPT !.z = lavaElevationThreshold],
            dist2 |-> Len100(1) * Len100(1)]
      ELSE afterHands

\* a variant in which lava underfoot competes by its distance of 0.01
findNearestThreatByDistance(ds, dino) ==
  LET afterPredators == PredatorScan(ds, dino, 1, NoThreat)
      afterHands == HandScan(dino, 1, afterPredators)
      terrain == queryTerrain(dino.position)
  IN  IF terrain.isLava /\ Closer(Len100(1) * Len100(1), afterHands)
      THEN [found |-> TRUE,
            threatPos |-> [dino.position EXCEPT !.z = lavaElevationThreshold],
            dist2 |-> Len100(1) * Len100(1)]
      ELSE afterHands

findNearestThreat(ds, dino) ==
  LET afterPredators == PredatorScan(ds, dino, 1, NoThreat)
      afterHands == HandScan(dino, 1, afterPredators)
      terrain == queryTerrain(dino.position)
  IN  IF terrain.isLava
      THEN [found |-> TRUE,
            threatPos |-> [dino.position EXCEPT !.z = lavaElevationThreshold],
            dist2 |-> Len100(1) * Len100(1)]
      ELSE afterHands

\* a variant that does not skip the agents that are not alive
RECURSIVE PreyScanOfAll(_, _, _, _)
PreyScanOfAll(ds, predator, k, best) ==
  IF k > Len(ds) THEN best
  ELSE LET other == ds[k]
           diff == VSub(other.position, predator.position)
           predInfo == getSpeciesInfo(predator.species)
       IN  IF other.id = predator.id
           THEN PreyScanOfAll(ds, predator, k + 1, best)
           ELSE IF /\ isHerbivore(other.species)
                   /\ MagLess(diff, predInfo.sightRange)
                   /\ Closer(Mag2(diff), best)
           THEN PreyScanOfAll(ds, predator, k + 1,
                  [found |-> TRUE, preyId |-> other.id, dist2 |-> Mag2(diff)])
           ELSE PreyScanOfAll(ds, predator, k + 1, best)

RECURSIVE PreyScan(_, _, _, _)
PreyScan(ds, predator, k, best) ==
  IF k > Len(ds) THEN best
  ELSE LET other == ds[k]
           diff == VSub(other.position, predator.position)
           predInfo == getSpeciesInfo(predator.species)
       IN  IF ~other.isAlive \/ other.id = predator.id
           THEN PreyScan(ds, predator, k + 1, best)
           ELSE IF /\ isHerbivore(other.species)
                   /\ MagLess(diff, predInfo.sightRange)
                   /\ Closer(Mag2(diff), best)
           THEN PreyScan(ds, predator, k + 1,
                  [found |-> TRUE, preyId |-> other.id, dist2 |-> Mag2(diff)])
           ELSE PreyScan(ds, predator, k + 1, best)

findNearestPrey(ds, predator) ==
  PreyScan(ds, predator, 1, [found |-> FALSE, preyId |-> 0, dist2 |-> 0])

(***************************************************************************)
(* Steering                                                                *)
(***************************************************************************)
boundaryMargin == Len100(5)
checkDist == Len100(3)
herdRadius == Len100(15)
wanderRadius == Len100(15)
arrivalRadius == Len100(2)

\* the contribution of the neighbour at offset (dx, dy) to the avoidance
NeighbourPush(dino, dx, dy) ==
  LET checkPos == [dino.position EXCEPT !.x = @ + dx * checkDist,
                                        !.y = @ + dy * checkDist]
      terrain == queryTerrain(checkPos)
      lava == IF terrain.isLava THEN 2 ELSE 0
      water == IF terrain.waterDepth > waterAvoidanceDepth THEN 1 ELSE 0
  IN  Vec(-dx * (lava + water), -dy * (lava + water), 0)

RECURSIVE VSum(_)
VSum(vs) ==
  IF vs = <<>> THEN Zero ELSE VAdd(Head(vs), VSum(Tail(vs)))

\* the avoidance vector, in thousandths when it is normalized
calculateAvoidanceVector(dino) ==
  LET bx == (IF dino.position.x < bounds.minX + boundaryMargin THEN 1 ELSE 0)
            - (IF dino.position.x > bounds.maxX - boundaryMargin THEN 1 ELSE 0)
      by == (IF dino.position.y < bounds.minY + boundaryMargin THEN 1 ELSE 0)
            - (IF dino.position.y > bounds.maxY - boundaryMargin THEN 1 ELSE 0)
      hazards == VSum(<<NeighbourPush(dino, -1, -1), NeighbourPush(dino, -1, 0),
                        NeighbourPush(dino, -1, 1), NeighbourPush(dino, 0, -1),
                        NeighbourPush(dino, 0, 1), NeighbourPush(dino, 1, -1),
                        NeighbourPush(dino, 1, 0), NeighbourPush(dino, 1, 1)>>)
      avoidance == VAdd(Vec(bx, by, 0), hazards)
  IN  IF ~Negligible(VTimes(avoidance, UnitScale), UnitScale)
      THEN UnitOf(avoidance)
      ELSE VTimes(avoidance, UnitScale)

\* a variant that also counts an agent at the herd radius itself
RECURSIVE HerdScanUpToRadius(_, _, _, _)
HerdScanUpToRadius(ds, dino, k, acc) ==
  IF k > Len(ds) THEN acc
  ELSE LET other == ds[k]
           diff == VSub(other.position, dino.position)
       IN  IF ~other.isAlive \/ other.id = dino.id
           THEN HerdScanUpToRadius(ds, dino, k + 1, acc)
           ELSE IF other.species = dino.species
                     /\ Mag2(diff) <= herdRadius * herdRadius
           THEN HerdScanUpToRadius(ds, dino, k + 1,
                  [center |-> VAdd(acc.center, other.position),
                   count |-> acc.count + 1])
           ELSE HerdScanUpToRadius(ds, dino, k + 1, acc)

RECURSIVE HerdScan(_, _, _, _)
HerdScan(ds, dino, k, acc) ==
  IF k > Len(ds) THEN acc
  ELSE LET other == ds[k]
           diff == VSub(other.position, dino.position)
       IN  IF ~other.isAlive \/ other.id = dino.id
           THEN HerdScan(ds, dino, k + 1, acc)
           ELSE IF other.species = dino.species /\ MagLess(diff, herdRadius)
           THEN HerdScan(ds, dino, k + 1,
                  [center |-> VAdd(acc.center, other.position),
                   count |-> acc.count + 1])
           ELSE HerdScan(ds, dino, k + 1, acc)

calculateHerdCenter(ds, dino) ==
  LET acc == HerdScan(ds, dino, 1, [center |-> Zero, count |-> 0])
  IN  IF acc.count > 0 THEN VDiv(acc.center, acc.count) ELSE dino.position

\* cos and sin of the angle r * 2 pi, in thousandths, for the quarter turns
Cos1000(r) == CASE r = 0 -> 1000 [] r = 25 -> 0 [] r = 50 -> -1000 [] r = 75 -> 0
Sin1000(r) == CASE r = 0 -> 0 [] r = 25 -> 1000 [] r = 50 -> 0 [] r = 75 -> -1000

WanderSample(dino, ra, rd) ==
  LET dist == TDiv(rd * wanderRadius, RandScale)
  IN  Vec(dino.position.x + TDiv(Cos1000(ra) * dist, UnitScale),
          dino.position.y + TDiv(Sin1000(ra) * dist, UnitScale),
          dino.position.z)

\* the targets the 20 attempts may end with
chooseWanderTarget(dino) ==
  LET samples == {WanderSample(dino, ra, rd) :
                    ra \in scenario.angle, rd \in scenario.wander}
  IN  {t \in samples : isPositionSafe(t)}
        \cup (IF \E t \in samples : ~isPositionSafe(t)
              THEN {boundsCenter(dino.position.z)} ELSE {})

(***************************************************************************)
(* updateDinosaurAI                                                        *)
(***************************************************************************)
Put(ds, i, d) == [ds EXCEPT ![i] = d]

\* speed times the unit vector along v
Toward(v, speed) == VDiv(VTimes(UnitOf(v), speed), UnitScale)

\* (r - 0.5) * 0.3, in thousandths
Jitter(r) == TDiv((2 * r - RandScale) * 3 * UnitScale, 20 * RandScale)

\* a variant that leaves the agent's isAlive flag cleared
RespawnNotAlive(dino, newPos) ==
  [dino EXCEPT !.position = newPos, !.isVisible = TRUE,
               !.alpha = AlphaScale, !.aiState = AI_IDLE,
               !.currentAction = ACTION_IDLE, !.stateTimer = 0]

\* a variant that leaves the agent invisible
RespawnInvisible(dino, newPos) ==
  [dino EXCEPT !.position = newPos, !.isAlive = TRUE,
               !.alpha = AlphaScale, !.aiState = AI_IDLE,
               !.currentAction = ACTION_IDLE, !.stateTimer = 0]

\* a variant that respawns the agent under a fresh id
RespawnAsNew(dino, newPos) ==
  [dino EXCEPT !.id = nextDinosaurId,
               !.position = newPos, !.isAlive = TRUE, !.isVisible = TRUE,
               !.alpha = AlphaScale, !.aiState = AI_IDLE,
               !.currentAction = ACTION_IDLE, !.stateTimer = 0]

\* the respawn of a Dead agent whose countdown has run out
Respawn(dino, newPos) ==
  [dino EXCEPT !.position = newPos, !.isAlive = TRUE, !.isVisible = TRUE,
               !.alpha = AlphaScale, !.aiState = AI_IDLE,
               !.currentAction = ACTION_IDLE, !.stateTimer = 0]

\* a variant that respawns one tick length before the countdown runs out
DeadStepRespawningEarly(ds, i, dt) ==
  LET dino == ds[i]
      d1 == [dino EXCEPT !.respawnTimer = @ - dt]
  IN  IF dino.aiState = AI_DEAD
      THEN IF d1.respawnTimer <= dt
           THEN {Put(ds, i, Respawn(d1, newPos)) : newPos \in findValidSpawnPosition}
           ELSE {Put(ds, i, d1)}
      ELSE {ds}

\* a variant whose countdown stands still
DeadStepWithoutCountdown(ds, i, dt) ==
  LET dino == ds[i]
  IN  IF dino.aiState = AI_DEAD
      THEN IF dino.respawnTimer <= 0
           THEN {Put(ds, i, Respawn(dino, newPos)) : newPos \in findValidSpawnPosition}
           ELSE {ds}
      ELSE {ds}

\* a variant that counts down from the delay on every tick
DeadStepFromDelay(ds, i, dt) ==
  LET dino == ds[i]
      d1 == [dino EXCEPT !.respawnTimer = respawnDelay - dt]
  IN  IF dino.aiState = AI_DEAD
      THEN IF d1.respawnTimer <= 0
           THEN {Put(ds, i, Respawn(d1, newPos)) : newPos \in findValidSpawnPosition}
           ELSE {Put(ds, i, d1)}
      ELSE {ds}

\* the AI step of an agent that is not alive
DeadStep(ds, i, dt) ==
  LET dino == ds[i]
      d1 == [dino EXCEPT !.respawnTimer = @ - dt]
  IN  IF dino.aiState = AI_DEAD
      THEN IF d1.respawnTimer <= 0
           THEN {Put(ds, i, Respawn(d1, newPos)) : newPos \in findValidSpawnPosition}
           ELSE {Put(ds, i, d1)}
      ELSE {ds}

\* a herbivore that found a threat
Flee(dino, threatPos, jx, jy) ==
  LET info == getSpeciesInfo(dino.species)
      raw == VSub(dino.position, threatPos)
      dir0 == IF ~Negligible(raw, PosScale) THEN UnitOf(raw)
              ELSE VDiv(VTimes(raw, UnitScale), PosScale)
      dir1 == [dir0 EXCEPT !.x = @ + Jitter(jx), !.y = @ + Jitter(jy)]
      dir2 == IF ~Negligible(dir1, UnitScale) THEN UnitOf(dir1) ELSE dir1
  IN  [dino EXCEPT !.aiState = AI_FLEEING, !.currentAction = ACTION_RUN,
                   !.velocity = VDiv(VTimes(dir2, info.runSpeed), UnitScale),
                   !.stateTimer = 0]

StartWandering(dino, target) ==
  [dino EXCEPT !.aiState = AI_WANDERING, !.currentAction = ACTION_WALK,
               !.targetPosition = target, !.stateTimer = 0]

\* the herd bias of a herbivore that leaves Idle for Wandering
HerdBlend(target, herdCenter) ==
  [target EXCEPT !.x = TDiv(target.x * 6 + herdCenter.x * 4, 10),
                 !.y = TDiv(target.y * 6 + herdCenter.y * 4, 10)]

LeaveIdle(ds, dino) ==
  UNION {IF g < 30
         THEN {[dino EXCEPT !.aiState = AI_GRAZING,
                            !.currentAction = ACTION_IDLE,
                            !.velocity = Zero, !.stateTimer = 0]}
         ELSE {[dino EXCEPT !.aiState = AI_WANDERING,
                            !.currentAction = ACTION_WALK,
                            !.targetPosition =
                               HerdBlend(t, calculateHerdCenter(ds, dino)),
                            !.stateTimer = 0] : t \in chooseWanderTarget(dino)}
         : g \in scenario.graze}

\* a variant in which an arrived herbivore starts to graze
HerbivoreWanderIntoGrazing(dino) ==
  LET info == getSpeciesInfo(dino.species)
      toTarget == VSub(dino.targetPosition, dino.position)
  IN  IF MagLess(toTarget, arrivalRadius)
      THEN [dino EXCEPT !.aiState = AI_GRAZING, !.currentAction = ACTION_IDLE,
                        !.velocity = Zero, !.stateTimer = 0]
      ELSE [dino EXCEPT !.velocity = Toward(toTarget, info.walkSpeed)]

\* a variant that walks toward the target at runSpeed
HerbivoreWanderAtRunSpeed(dino) ==
  LET info == getSpeciesInfo(dino.species)
      toTarget == VSub(dino.targetPosition, dino.position)
  IN  IF MagLess(toTarget, arrivalRadius)
      THEN [dino EXCEPT !.aiState = AI_IDLE, !.currentAction = ACTION_IDLE,
                        !.velocity = Zero, !.stateTimer = 0]
      ELSE [dino EXCEPT !.velocity = Toward(toTarget, info.runSpeed)]

HerbivoreWander(dino) ==
  LET info == getSpeciesInfo(dino.species)
      toTarget == VSub(dino.targetPosition, dino.position)
  IN  IF MagLess(toTarget, arrivalRadius)
      THEN [dino EXCEPT !.aiState = AI_IDLE, !.currentAction = ACTION_IDLE,
                        !.velocity = Zero, !.stateTimer = 0]
      ELSE [dino EXCEPT !.velocity = Toward(toTarget, info.walkSpeed)]

\* a variant whose flight ends after 1.0 s without a threat
HerbivoreAICalmingEarly(ds, dino) ==
  LET threat == findNearestThreat(ds, dino)
  IN  IF threat.found
      THEN {Flee(dino, threat.threatPos, jx, LineDraw) : jx \in scenario.jitter}
      ELSE IF dino.aiState = AI_FLEEING
      THEN IF dino.stateTimer > Sec10(10)
           THEN {StartWandering(dino, t) : t \in chooseWanderTarget(dino)}
           ELSE {dino}
      ELSE IF dino.aiState = AI_IDLE
      THEN UNION {IF dino.stateTimer > Sec10(10) + TDiv(r * Sec10(30), RandScale)
                  THEN LeaveIdle(ds, dino) ELSE {dino} : r \in scenario.dwell}
      ELSE IF dino.aiState = AI_GRAZING
      THEN UNION {IF dino.stateTimer > Sec10(20) + TDiv(r * Sec10(40), RandScale)
                  THEN {StartWandering(dino, t) : t \in chooseWanderTarget(dino)}
                  ELSE {dino} : r \in scenario.dwell}
      ELSE IF dino.aiState = AI_WANDERING
      THEN {HerbivoreWander(dino)}
      ELSE {dino}

\* a variant whose Idle dwell is drawn from 1.0 s to 5.0 s
HerbivoreAIDwellingLonger(ds, dino) ==
  LET threat == findNearestThreat(ds, dino)
  IN  IF threat.found
      THEN {Flee(dino, threat.threatPos, jx, LineDraw) : jx \in scenario.jitter}
      ELSE IF dino.aiState = AI_FLEEING
      THEN IF dino.stateTimer > Sec10(20)
           THEN {StartWandering(dino, t) : t \in chooseWanderTarget(dino)}
           ELSE {dino}
      ELSE IF dino.aiState = AI_IDLE
      THEN UNION {IF dino.stateTimer > Sec10(10) + TDiv(r * Sec10(40), RandScale)
                  THEN LeaveIdle(ds, dino) ELSE {dino} : r \in scenario.dwell}
      ELSE IF dino.aiState = AI_GRAZING
      THEN UNION {IF dino.stateTimer > Sec10(20) + TDiv(r * Sec10(40), RandScale)
                  THEN {StartWandering(dino, t) : t \in chooseWanderTarget(dino)}
                  ELSE {dino} : r \in scenario.dwell}
      ELSE IF dino.aiState = AI_WANDERING
      THEN {HerbivoreWander(dino)}
      ELSE {dino}

\* the herbivore branch: the records the agent may end the branch with
HerbivoreAI(ds, dino) ==
  LET threat == findNearestThreat(ds, dino)
  IN  IF threat.found
      THEN {Flee(dino, threat.threatPos, jx, LineDraw) : jx \in scenario.jitter}
      ELSE IF dino.aiState = AI_FLEEING
      THEN IF dino.stateTimer > Sec10(20)
           THEN {StartWandering(dino, t) : t \in chooseWanderTarget(dino)}
           ELSE {dino}
      ELSE IF dino.aiState = AI_IDLE
      THEN UNION {IF dino.stateTimer > Sec10(10) + TDiv(r * Sec10(30), RandScale)
                  THEN LeaveIdle(ds, dino) ELSE {dino} : r \in scenario.dwell}
      ELSE IF dino.aiState = AI_GRAZING
      THEN UNION {IF dino.stateTimer > Sec10(20) + TDiv(r * Sec10(40), RandScale)
                  THEN {StartWandering(dino, t) : t \in chooseWanderTarget(dino)}
                  ELSE {dino} : r \in scenario.dwell}
      ELSE IF dino.aiState = AI_WANDERING
      THEN {HerbivoreWander(dino)}
      ELSE {dino}

\* a predator standing on lava; centerZ is the component the code leaves unset
LavaFlee(dino, centerZ) ==
  LET info == getSpeciesInfo(dino.species)
      raw == VSub(boundsCenter(centerZ), dino.position)
      dir == IF ~Negligible(raw, PosScale) THEN UnitOf(raw)
             ELSE VDiv(VTimes(raw, UnitScale), PosScale)
  IN  [dino EXCEPT !.aiState = AI_FLEEING, !.currentAction = ACTION_RUN,
                   !.velocity = VDiv(VTimes(dir, info.runSpeed), UnitScale)]

RECURSIVE FindById(_, _, _)
FindById(ds, id, k) ==
  IF k > Len(ds) THEN 0
  ELSE IF ds[k].id = id THEN k ELSE FindById(ds, id, k + 1)

\* a variant whose chase keeps the action the predator had
HuntKeepingAction(ds, dino, preyId) ==
  LET info == getSpeciesInfo(dino.species)
      d1 == [dino EXCEPT !.aiState = AI_HUNTING, !.targetDinoId = preyId]
      k == FindById(ds, preyId, 1)
      toTarget == VSub(ds[k].position, dino.position)
  IN  IF k = 0 THEN d1
      ELSE IF MagLess(toTarget, info.attackRange)
      THEN [d1 EXCEPT !.aiState = AI_ATTACKING, !.currentAction = ACTION_ATTACK,
                      !.velocity = Zero, !.stateTimer = 0]
      ELSE [d1 EXCEPT !.velocity =
                         IF ~Negligible(toTarget, PosScale)
                         THEN Toward(toTarget, info.runSpeed)
                         ELSE VDiv(VTimes(toTarget, info.runSpeed), PosScale)]

\* a predator that found prey
Hunt(ds, dino, preyId) ==
  LET info == getSpeciesInfo(dino.species)
      d1 == [dino EXCEPT !.aiState = AI_HUNTING, !.targetDinoId = preyId]
      k == FindById(ds, preyId, 1)
      toTarget == VSub(ds[k].position, dino.position)
  IN  IF k = 0 THEN d1
      ELSE IF MagLess(toTarget, info.attackRange)
      THEN [d1 EXCEPT !.aiState = AI_ATTACKING, !.currentAction = ACTION_ATTACK,
                      !.velocity = Zero, !.stateTimer = 0]
      ELSE [d1 EXCEPT !.currentAction = ACTION_RUN,
                      !.velocity =
                         IF ~Negligible(toTarget, PosScale)
                         THEN Toward(toTarget, info.runSpeed)
                         ELSE VDiv(VTimes(toTarget, info.runSpeed), PosScale)]

\* a variant that leaves the prey its velocity
KillWithoutStopping(prey) ==
  [prey EXCEPT !.isAlive = FALSE, !.aiState = AI_DYING,
               !.currentAction = ACTION_DIE, !.currentFrame = 0,
               !.stateTimer = 0]

\* what the kill writes into the prey
Kill(prey) ==
  [prey EXCEPT !.isAlive = FALSE, !.aiState = AI_DYING,
               !.currentAction = ACTION_DIE, !.currentFrame = 0,
               !.stateTimer = 0, !.velocity = Zero]

\* a variant that also finds an agent that is not alive
RECURSIVE FindDeadOrAliveById(_, _, _)
FindDeadOrAliveById(ds, id, k) ==
  IF k > Len(ds) THEN 0
  ELSE IF ds[k].id = id THEN k
  ELSE FindDeadOrAliveById(ds, id, k + 1)

RECURSIVE FindAliveById(_, _, _)
FindAliveById(ds, id, k) ==
  IF k > Len(ds) THEN 0
  ELSE IF ds[k].id = id /\ ds[k].isAlive THEN k
  ELSE FindAliveById(ds, id, k + 1)

\* a variant that kills the target at any distance
ResolveAttackAtAnyRange(ds, i) ==
  LET dino == ds[i]
      k == FindAliveById(ds, dino.targetDinoId, 1)
      ds1 == IF k # 0 THEN Put(ds, k, Kill(ds[k])) ELSE ds
  IN  [ds1 EXCEPT ![i].aiState = AI_IDLE, ![i].currentAction = ACTION_IDLE,
                  ![i].stateTimer = 0]

\* the end of an attack: the registry after it
ResolveAttack(ds, i) ==
  LET dino == ds[i]
      info == getSpeciesInfo(dino.species)
      k == FindAliveById(ds, dino.targetDinoId, 1)
      ds1 == IF k # 0 /\ MagLess(VSub(ds[k].position, dino.position),
                                 2 * info.attackRange)
             THEN Put(ds, k, Kill(ds[k]))
             ELSE ds
  IN  [ds1 EXCEPT ![i].aiState = AI_IDLE, ![i].currentAction = ACTION_IDLE,
                  ![i].stateTimer = 0]

\* a variant that keeps the wander target for as long as it wanders
PatrolWithoutTimeout(dino) ==
  LET info == getSpeciesInfo(dino.species)
      picked == IF dino.aiState # AI_WANDERING
                THEN {StartWandering(dino, t) : t \in chooseWanderTarget(dino)}
                ELSE {dino}
  IN  {LET toTarget == VSub(d.targetPosition, d.position)
       IN  IF Mag2(toTarget) > arrivalRadius * arrivalRadius
           THEN [d EXCEPT !.velocity = Toward(toTarget, info.walkSpeed)]
           ELSE [d EXCEPT !.velocity = Zero] : d \in picked}

\* a predator that sees no prey and is not attacking
Patrol(dino) ==
  LET info == getSpeciesInfo(dino.species)
      picked == IF dino.aiState # AI_WANDERING \/ dino.stateTimer > Sec10(50)
                THEN {StartWandering(dino, t) : t \in chooseWanderTarget(dino)}
                ELSE {dino}
  IN  {LET toTarget == VSub(d.targetPosition, d.position)
       IN  IF Mag2(toTarget) > arrivalRadius * arrivalRadius
           THEN [d EXCEPT !.velocity = Toward(toTarget, info.walkSpeed)]
           ELSE [d EXCEPT !.velocity = Zero] : d \in picked}

\* a variant that adds the avoidance at full walk speed
ApplyAvoidanceAtFullSpeed(dino) ==
  LET info == getSpeciesInfo(dino.species)
      avoidance == calculateAvoidanceVector(dino)
  IN  IF ~Negligible(avoidance, UnitScale)
      THEN [dino EXCEPT !.velocity =
              VAdd(@, VDiv(VTimes(avoidance, info.walkSpeed), UnitScale))]
      ELSE dino

\* a variant that puts the avoidance in the place of the velocity
ApplyAvoidanceInstead(dino) ==
  LET info == getSpeciesInfo(dino.species)
      avoidance == calculateAvoidanceVector(dino)
  IN  IF ~Negligible(avoidance, UnitScale)
      THEN [dino EXCEPT !.velocity =
              VDiv(VTimes(avoidance, info.walkSpeed), 2 * UnitScale)]
      ELSE dino

\* the avoidance added after the state machine
ApplyAvoidance(dino) ==
  LET info == getSpeciesInfo(dino.species)
      avoidance == calculateAvoidanceVector(dino)
  IN  IF ~Negligible(avoidance, UnitScale)
      THEN [dino EXCEPT !.velocity =
              VAdd(@, VDiv(VTimes(avoidance, info.walkSpeed), 2 * UnitScale))]
      ELSE dino

\* the predator branch: the registries the branch may end with, avoidance
\* included where the code reaches it
PredatorAI(ds, i) ==
  LET dino == ds[i]
      prey == findNearestPrey(ds, dino)
  IN  IF queryTerrain(dino.position).isLava
      THEN {Put(ds, i, LavaFlee(dino, cz)) : cz \in UninitZ}
      ELSE IF prey.found
      THEN {Put(ds, i, ApplyAvoidance(Hunt(ds, dino, prey.preyId)))}
      ELSE IF dino.aiState = AI_ATTACKING
      THEN IF dino.stateTimer > Sec10(10)
           THEN LET ds1 == ResolveAttack(ds, i)
                IN  {Put(ds1, i, ApplyAvoidance(ds1[i]))}
           ELSE {Put(ds, i, ApplyAvoidance(dino))}
      ELSE {Put(ds, i, ApplyAvoidance(d)) : d \in Patrol(dino)}

\* the registries one AI step of agent i may leave
updateDinosaurAI(ds, i, dt) ==
  LET dino == ds[i]
      d1 == [dino EXCEPT !.stateTimer = @ + dt]
  IN  IF ~dino.isAlive THEN DeadStep(ds, i, dt)
      ELSE IF isHerbivore(dino.species)
      THEN {Put(ds, i, ApplyAvoidance(d)) : d \in HerbivoreAI(ds, d1)}
      ELSE PredatorAI(Put(ds, i, d1), i)

(***************************************************************************)
(* Dinosaur.cpp: calculateDirection.  The angle is that of (-vx, -vy); the *)
(* sector index is floor((angle + 22.5) / 45) mod 8.  A direction is       *)
(* within 22.5 degrees of an axis iff the other component is less than     *)
(* tan(22.5) = sqrt(2) - 1 times the one along the axis, which for         *)
(* integers is (a + b)^2 < 2 a^2; equality cannot occur.                   *)
(***************************************************************************)
Abs(n) == IF n >= 0 THEN n ELSE -n

angleToDir == <<DIR_E, DIR_NE, DIR_N, DIR_NW, DIR_W, DIR_SW, DIR_S, DIR_SE>>

\* floor((angle + 22.5) / 45) mod 8 for the angle of (a, b); atan2 of two
\* zeros of the signs the code produces is 180 degrees
SectorIndex(a, b) ==
  LET s == (Abs(a) + Abs(b)) * (Abs(a) + Abs(b))
  IN  IF a = 0 /\ b = 0 THEN 4
      ELSE IF s < 2 * a * a THEN (IF a > 0 THEN 0 ELSE 4)
      ELSE IF s < 2 * b * b THEN (IF b > 0 THEN 2 ELSE 6)
      ELSE IF a > 0 THEN (IF b > 0 THEN 1 ELSE 7)
      ELSE (IF b > 0 THEN 3 ELSE 5)

\* a variant that classifies the velocity itself
calculateDirectionOfVelocity(velocity) ==
  IF Mag2(velocity) = 0 THEN DIR_S
  ELSE angleToDir[SectorIndex(velocity.x, velocity.y) + 1]

calculateDirection(velocity) ==
  IF Mag2(velocity) = 0 THEN DIR_S
  ELSE angleToDir[SectorIndex(-velocity.x, -velocity.y) + 1]

(***************************************************************************)
(* updateDinosaurAnimation                                                 *)
(***************************************************************************)
fadePerSecond == AlphaScale \div 2

\* a variant that fades from the first frame of the Die animation on
DyingAnimationFadingFromStart(dino, dt) ==
  LET info == getSpeciesInfo(dino.species)
      t == dino.animationTimer + dt
      frame == dino.currentFrame + 1
      faded == dino.alpha - TDiv(dt * fadePerSecond, TimeScale)
  IN  IF t >= dino.frameTime
      THEN IF frame >= info.framesPerAction[ACTION_DIE]
           THEN IF faded <= 0
                THEN [dino EXCEPT !.animationTimer = t - dino.frameTime,
                                  !.currentFrame = info.framesPerAction[ACTION_DIE] - 1,
                                  !.alpha = faded,
                                  !.aiState = AI_DEAD,
                                  !.isVisible = FALSE,
                                  !.respawnTimer = respawnDelay]
                ELSE [dino EXCEPT !.animationTimer = t - dino.frameTime,
                                  !.currentFrame = info.framesPerAction[ACTION_DIE] - 1,
                                  !.alpha = faded]
           ELSE [dino EXCEPT !.animationTimer = t - dino.frameTime,
                             !.currentFrame = frame,
                             !.alpha = faded]
      ELSE [dino EXCEPT !.animationTimer = t]

\* a variant that holds the Die animation one frame past its last frame
DyingAnimationPastEnd(dino, dt) ==
  LET info == getSpeciesInfo(dino.species)
      t == dino.animationTimer + dt
      frame == dino.currentFrame + 1
      faded == dino.alpha - TDiv(dt * fadePerSecond, TimeScale)
  IN  IF t >= dino.frameTime
      THEN IF frame >= info.framesPerAction[ACTION_DIE]
           THEN IF faded <= 0
                THEN [dino EXCEPT !.animationTimer = t - dino.frameTime,
                                  !.currentFrame = info.framesPerAction[ACTION_DIE],
                                  !.alpha = faded,
                                  !.aiState = AI_DEAD,
                                  !.isVisible = FALSE,
                                  !.respawnTimer = respawnDelay]
                ELSE [dino EXCEPT !.animationTimer = t - dino.frameTime,
                                  !.currentFrame = info.framesPerAction[ACTION_DIE],
                                  !.alpha = faded]
           ELSE [dino EXCEPT !.animationTimer = t - dino.frameTime,
                             !.currentFrame = frame]
      ELSE [dino EXCEPT !.animationTimer = t]

\* the Dying branch
DyingAnimation(dino, dt) ==
  LET info == getSpeciesInfo(dino.species)
      t == dino.animationTimer + dt
      frame == dino.currentFrame + 1
      faded == dino.alpha - TDiv(dt * fadePerSecond, TimeScale)
  IN  IF t >= dino.frameTime
      THEN IF frame >= info.framesPerAction[ACTION_DIE]
           THEN IF faded <= 0
                THEN [dino EXCEPT !.animationTimer = t - dino.frameTime,
                                  !.currentFrame = info.framesPerAction[ACTION_DIE] - 1,
                                  !.alpha = faded,
                                  !.aiState = AI_DEAD,
                                  !.isVisible = FALSE,
                                  !.respawnTimer = respawnDelay]
                ELSE [dino EXCEPT !.animationTimer = t - dino.frameTime,
                                  !.currentFrame = info.framesPerAction[ACTION_DIE] - 1,
                                  !.alpha = faded]
           ELSE [dino EXCEPT !.animationTimer = t - dino.frameTime,
                             !.currentFrame = frame]
      ELSE [dino EXCEPT !.animationTimer = t]

\* the normal branch
NormalAnimation(dino, dt) ==
  LET info == getSpeciesInfo(dino.species)
      t == dino.animationTimer + dt
      frame == dino.currentFrame + 1
      maxFrames == info.framesPerAction[dino.currentAction]
      d1 == IF t >= dino.frameTime
            THEN [dino EXCEPT !.animationTimer = t - dino.frameTime,
                              !.currentFrame = IF frame >= maxFrames THEN 0 ELSE frame]
            ELSE [dino EXCEPT !.animationTimer = t]
  IN  IF ~Negligible(d1.velocity, VelScale)
      THEN [d1 EXCEPT !.direction = calculateDirection(d1.velocity)]
      ELSE d1

\* a variant that turns the agent to its velocity in every case
updateDinosaurAnimationTurning(dino, dt) ==
  LET d == IF dino.aiState = AI_DYING THEN DyingAnimation(dino, dt)
           ELSE NormalAnimation(dino, dt)
  IN  [d EXCEPT !.direction = calculateDirection(d.velocity)]

updateDinosaurAnimation(dino, dt) ==
  IF dino.aiState = AI_DYING THEN DyingAnimation(dino, dt)
  ELSE NormalAnimation(dino, dt)

(***************************************************************************)
(* updateDinosaurMovement                                                  *)
(***************************************************************************)
\* a variant that does not clamp the position to the bounds
updateDinosaurMovementUnclamped(dino, dt) ==
  IF ~dino.isAlive THEN dino
  ELSE LET x == dino.position.x + dino.velocity.x * dt
           y == dino.position.y + dino.velocity.y * dt
           targetZ == queryTerrain(Vec(x, y, dino.position.z)).elevation
           z == dino.position.z + TDiv(targetZ - dino.position.z, 10)
       IN  [dino EXCEPT !.position = Vec(x, y, z)]

\* a variant that also moves an agent that is not alive
updateDinosaurMovementOfAll(dino, dt) ==
  LET x == Max(bounds.minX, Min(bounds.maxX, dino.position.x + dino.velocity.x * dt))
      y == Max(bounds.minY, Min(bounds.maxY, dino.position.y + dino.velocity.y * dt))
      targetZ == queryTerrain(Vec(x, y, dino.position.z)).elevation
      z == dino.position.z + TDiv(targetZ - dino.position.z, 10)
  IN  [dino EXCEPT !.position = Vec(x, y, z)]

updateDinosaurMovement(dino, dt) ==
  IF ~dino.isAlive THEN dino
  ELSE LET x == Max(bounds.minX, Min(bounds.maxX, dino.position.x + dino.velocity.x * dt))
           y == Max(bounds.minY, Min(bounds.maxY, dino.position.y + dino.velocity.y * dt))
           targetZ == queryTerrain(Vec(x, y, dino.position.z)).elevation
           z == dino.position.z + TDiv(targetZ - dino.position.z, 10)
       IN  [dino EXCEPT !.position = Vec(x, y, z)]

(***************************************************************************)
(* update: every agent in registry order, AI then Animation then Movement. *)
(* UpdateFrom gives the records of the runs the loop may make from agent i *)
(* on: the tick length, per agent the registry before its AI step, after   *)
(* it and after its Animation step, and the registry at the end.           *)
(***************************************************************************)
\* a variant that moves the agents after the last of them has run its AI
\* and Animation steps
RECURSIVE UpdateFromMovingLast(_, _, _, _)
UpdateFromMovingLast(ds, log, i, dt) ==
  IF i > Len(ds)
  THEN {[dt |-> dt, hands |-> detectedHands, log |-> log,
         end |-> [j \in DOMAIN ds |-> updateDinosaurMovement(ds[j], dt)]]}
  ELSE UNION {LET anim == Put(ai, i, updateDinosaurAnimation(ai[i], dt))
              IN  UpdateFromMovingLast(anim,
                                       Append(log, [before |-> ds, ai |-> ai, anim |-> anim]),
                                       i + 1, dt)
              : ai \in updateDinosaurAI(ds, i, dt)}

RECURSIVE UpdateFrom(_, _, _, _)
UpdateFrom(ds, log, i, dt) ==
  IF i > Len(ds)
  THEN {[dt |-> dt, hands |-> detectedHands, log |-> log, end |-> ds]}
  ELSE UNION {LET anim == Put(ai, i, updateDinosaurAnimation(ai[i], dt))
                  moved == Put(anim, i, updateDinosaurMovement(anim[i], dt))
              IN  UpdateFrom(moved,
                             Append(log, [before |-> ds, ai |-> ai, anim |-> anim]),
                             i + 1, dt)
              : ai \in updateDinosaurAI(ds, i, dt)}

NoSteps == [dt |-> 0, hands |-> <<>>, log |-> <<>>, end |-> <<>>]
NoFacing == [called |-> FALSE, velocity |-> Zero, direction |-> DIR_S]
NoSearch == [called |-> FALSE, pos |-> Zero, attempts |-> 0, found |-> FALSE]
NoScan == [called |-> FALSE]

(***************************************************************************)
(* TerrainQuery.  The water table hands out a grid of 2 x 2 cells over the *)
(* domain; update() reads the terrain and water surface grids back from    *)
(* the GPU, which the model lets be one of a few pairs of grids.  Without  *)
(* a water table the constructor leaves domainMin and domainMax            *)
(* uninitialized: they hold whatever the memory held.                      *)
(***************************************************************************)
TERRAIN_NORMAL == "TERRAIN_NORMAL"
TERRAIN_WATER == "TERRAIN_WATER"
TERRAIN_LAVA == "TERRAIN_LAVA"

\* WaterTable2::getDomain and getSize
tableDomain ==
  [min |-> Vec(bounds.minX, bounds.minY, bounds.minZ),
   max |-> Vec(bounds.maxX, bounds.maxY, bounds.maxZ)]
tableSize == <<1 + 1, 1 + 1>>

NoQuery ==
  [called |-> FALSE, dataValid |-> FALSE, terrainHeight |-> 0,
   waterSurfaceHeight |-> 0, waterDepth |-> 0, type |-> TERRAIN_NORMAL,
   isValid |-> FALSE]

\* TerrainQuery::TerrainQuery(sWaterTable); memMin and memMax are what the
\* memory of domainMin and domainMax holds before the constructor runs
TerrainQuery(hasWaterTable, memMin, memMax) ==
  [waterTable |-> hasWaterTable,
   gridWidth |-> IF hasWaterTable THEN tableSize[1] ELSE 0,
   gridHeight |-> IF hasWaterTable THEN tableSize[2] ELSE 0,
   terrainGrid |-> IF hasWaterTable THEN [k \in 1..(tableSize[1] * tableSize[2]) |-> 0]
                   ELSE <<>>,
   waterGrid |-> IF hasWaterTable THEN [k \in 1..(tableSize[1] * tableSize[2]) |-> 0]
                 ELSE <<>>,
   domainMin |-> IF hasWaterTable THEN tableDomain.min ELSE memMin,
   domainMax |-> IF hasWaterTable THEN tableDomain.max ELSE memMax,
   lavaThreshold |-> -Len10(100),
   waterDepthThreshold |-> Len10(5),
   dataValid |-> FALSE,
   updateCounter |-> 0,
   updateFrequency |-> 5,
   last |-> NoQuery]

\* sampleBilinear(grid, x, y), with x and y in thousandths of a cell
sampleBilinear(tq, grid, x, y) ==
  LET cx == Max(0, Min(x, (tq.gridWidth - 1) * UnitScale))
      cy == Max(0, Min(y, (tq.gridHeight - 1) * UnitScale))
      x0 == cx \div UnitScale
      y0 == cy \div UnitScale
      x1 == Min(x0 + 1, tq.gridWidth - 1)
      y1 == Min(y0 + 1, tq.gridHeight - 1)
      fx == cx - x0 * UnitScale
      fy == cy - y0 * UnitScale
      v00 == grid[y0 * tq.gridWidth + x0 + 1]
      v10 == grid[y0 * tq.gridWidth + x1 + 1]
      v01 == grid[y1 * tq.gridWidth + x0 + 1]
      v11 == grid[y1 * tq.gridWidth + x1 + 1]
      v0 == TDiv(v00 * (UnitScale - fx) + v10 * fx, UnitScale)
      v1 == TDiv(v01 * (UnitScale - fx) + v11 * fx, UnitScale)
  IN  TDiv(v0 * (UnitScale - fy) + v1 * fy, UnitScale)

\* TerrainQuery::query(worldX, worldY)
query(tq, worldX, worldY) ==
  IF ~tq.dataValid \/ ~tq.waterTable
  THEN LET mid == TDiv(tq.domainMin.z + tq.domainMax.z, 2)
       IN  [terrainHeight |-> mid, waterSurfaceHeight |-> mid, waterDepth |-> 0,
            type |-> TERRAIN_NORMAL, isValid |-> tq.dataValid]
  ELSE LET nx == TDiv((worldX - tq.domainMin.x) * UnitScale,
                      tq.domainMax.x - tq.domainMin.x)
           ny == TDiv((worldY - tq.domainMin.y) * UnitScale,
                      tq.domainMax.y - tq.domainMin.y)
           gx == Max(0, Min(UnitScale, nx)) * (tq.gridWidth - 1)
           gy == Max(0, Min(UnitScale, ny)) * (tq.gridHeight - 1)
           terrainHeight == sampleBilinear(tq, tq.terrainGrid, gx, gy)
           waterSurfaceHeight == sampleBilinear(tq, tq.waterGrid, gx, gy)
           waterDepth == Max(0, waterSurfaceHeight - terrainHeight)
       IN  [terrainHeight |-> terrainHeight,
            waterSurfaceHeight |-> waterSurfaceHeight,
            waterDepth |-> waterDepth,
            type |-> IF terrainHeight < tq.lavaThreshold THEN TERRAIN_LAVA
                     ELSE IF waterDepth > tq.waterDepthThreshold THEN TERRAIN_WATER
                     ELSE TERRAIN_NORMAL,
            isValid |-> tq.dataValid]

\* what glGetTexImage may read back: terrain and water surface, which is at
\* the terrain where it is dry
Readbacks ==
  {[terrain |-> <<GroundZ, GroundZ, GroundZ, GroundZ>>,
    water |-> <<GroundZ, GroundZ, GroundZ, GroundZ>>],
   [terrain |-> <<LavaZ, GroundZ, GroundZ, GroundZ>>,
    water |-> <<LavaZ, GroundZ, GroundZ, GroundZ>>],
   [terrain |-> <<GroundZ, GroundZ, GroundZ, GroundZ>>,
    water |-> <<GroundZ, GroundZ, GroundZ + Len10(10), GroundZ + Len10(10)>>]}

\* the points queried: a corner of the domain, its centre, a point beyond it
QueryPoints ==
  {<<bounds.minX, bounds.minY>>, <<0, 0>>, <<bounds.maxX + Len10(1), bounds.maxY>>}

(***************************************************************************)
(* The bounds of the exploration and the inputs of the operations          *)
(***************************************************************************)
MaxTicks == 2
MaxLifeTicks == 5
MaxStalkTicks == 6

MaxFadeTicks == 16
MaxLiveTicks == 3
MaxDrainTicks == 12
MaxPackTicks == 3
MaxTwinTicks == 2
MaxChaseTicks == 3
MaxGrazeTicks == 6
MaxRandomSpawns == 1
MaxSpeed == 6
\* tick lengths: 1/150 s and 1.1 s
DtChoices == {2, Sec10(11)}
\* the calls spawnDinosaur(species, position) of a run, each made at most
\* once, at any time and in any order: a predator at the centre, a herbivore
\* 0.01 away from it, a herbivore 2.0 away (the reach of the shipped T-Rex)
SpawnInputs ==
  {<<DINO_TREX, Vec(0, 0, 0)>>, <<DINO_TRICERATOPS, Vec(Len100(1), 0, 0)>>,
   <<DINO_TRICERATOPS, Vec(Len10(20), 0, 0)>>}
HandLists == {<<>>, <<Vec(Len100(5), 0, 0)>>}

(***************************************************************************)
(* Operations                                                              *)
(***************************************************************************)
BaseScenario ==
  [horizon |-> MaxTicks, drain |-> 0, firstDts |-> DtChoices,
   dts |-> DtChoices, drainDts |-> DtChoices, hands |-> HandLists, spawnUntil |-> MaxTicks,
   jitter |-> JitterDraws, dwell |-> DwellDraws, graze |-> GrazeDraws,
   angle |-> WanderAngleDraws, wander |-> WanderDistDraws,
   timer |-> TimerDraws, bounds |-> DefaultBounds]

Spawn ==
  /\ ticks <= scenario.spawnUntil
  /\ \E in \in pending, dirDraw \in DirectionDraws, timerDraw \in scenario.timer :
       /\ dinosaurs' = Append(dinosaurs,
                              NewDinosaur(in[1], nextDinosaurId, in[2],
                                          dirDraw, timerDraw))
       /\ pending' = pending \ {in}
  /\ nextDinosaurId' = nextDinosaurId + 1
  /\ UNCHANGED <<detectedHands, heightField, speciesInfoTable, ticks, scenario,
                 steps, search, facing, terrainQuery, scan>>

SetDetectedHands ==
  /\ \E hands \in scenario.hands : hands # detectedHands /\ detectedHands' = hands
  /\ UNCHANGED <<dinosaurs, nextDinosaurId, heightField, speciesInfoTable,
                 ticks, scenario, pending, steps, search, facing,
                 terrainQuery, scan>>

\* A run makes scenario.horizon calls of update, and up to scenario.drain
\* more while some agent is not alive.
UpdateCalled ==
  \/ ticks < scenario.horizon
  \/ /\ ticks < scenario.horizon + scenario.drain
     /\ \E i \in DOMAIN dinosaurs : ~dinosaurs[i].isAlive

\* the tick lengths of a run: of its first call, of the calls up to the
\* horizon, and of the calls after it
TickLengths ==
  IF ticks = 0 THEN scenario.firstDts
  ELSE IF ticks < scenario.horizon THEN scenario.dts
  ELSE scenario.drainDts

\* update(deltaTime)
Update ==
  /\ UpdateCalled
  /\ \E dt \in TickLengths :
       \E r \in UpdateFrom(dinosaurs, <<>>, 1, dt) :
         /\ dinosaurs' = r.end
         /\ steps' = r
  /\ ticks' = ticks + 1
  /\ UNCHANGED <<nextDinosaurId, detectedHands, heightField, speciesInfoTable,
                 scenario, pending, search, facing, terrainQuery, scan>>

Next == Spawn \/ SetDetectedHands \/ Update

Init ==
  /\ dinosaurs = <<>>
  /\ nextDinosaurId = 0
  /\ detectedHands = <<>>
  /\ heightField \in {"ground", "lavaWest"}
  /\ speciesInfoTable = ShippedTable
  /\ ticks = 0
  /\ scenario = BaseScenario
  /\ pending = SpawnInputs
  /\ steps = NoSteps
  /\ search = NoSearch
  /\ facing = NoFacing
  /\ terrainQuery = TerrainQuery(TRUE, Zero, Zero)
  /\ scan = NoScan

Spec == Init /\ [][Next]_vars

(***************************************************************************)
(* The death and respawn code.  It is dead code under the shipped catalog, *)
(* so it is run with the short-sighted ones: one predator, one herbivore   *)
(* 0.01 away, both spawned before the first tick, and a threat point out   *)
(* of reach.  SpecLife runs whole life cycles (kill, Die animation, fade,  *)
(* countdown, respawn) with long ticks and the two-frame Die animation;    *)
(* SpecFade runs the Die animation of the shipped length with short ticks. *)
(***************************************************************************)
LifeInputs ==
  {<<DINO_TREX, Vec(0, 0, 0)>>, <<DINO_TRICERATOPS, Vec(Len100(1), 0, 0)>>}
LifeHandLists == {<<>>, <<Vec(-Len10(5), Len10(4), 0)>>}
LifeDtChoices == DtChoices \cup {Sec10(90)}

InitLife ==
  /\ dinosaurs = <<>>
  /\ nextDinosaurId = 0
  /\ detectedHands = <<>>
  /\ heightField \in {"ground", "lavaWest"}
  /\ speciesInfoTable = QuickDeathTable
  /\ ticks = 0
  /\ scenario = [BaseScenario EXCEPT
                   !.horizon = MaxLifeTicks, !.firstDts = LifeDtChoices,
                   !.dts = LifeDtChoices, !.hands = LifeHandLists,
                   !.spawnUntil = 0, !.jitter = {0}]
  /\ pending = LifeInputs
  /\ steps = NoSteps
  /\ search = NoSearch
  /\ facing = NoFacing
  /\ terrainQuery = TerrainQuery(TRUE, Zero, Zero)
  /\ scan = NoScan

SpecLife == InitLife /\ [][Next]_vars

InitFade ==
  /\ dinosaurs = <<>>
  /\ nextDinosaurId = 0
  /\ detectedHands = <<>>
  /\ heightField = "ground"
  /\ speciesInfoTable = ShortSightedTable
  /\ ticks = 0
  /\ scenario = [BaseScenario EXCEPT
                   !.horizon = MaxFadeTicks, !.hands = LifeHandLists,
                   !.spawnUntil = 0, !.jitter = {0}, !.dwell = {0},
                   !.graze = {0}, !.angle = {0}]
  /\ pending = LifeInputs
  /\ steps = NoSteps
  /\ search = NoSearch
  /\ facing = NoFacing
  /\ terrainQuery = TerrainQuery(TRUE, Zero, Zero)
  /\ scan = NoScan

SpecFade == InitFade /\ [][Next]_vars

(***************************************************************************)
(* Whole life cycles under repeated ticks: after a first tick of 1/150 s   *)
(* the ticks up to the horizon last 1.1 s or 9 s each, and update keeps    *)
(* being called, with ticks of 3 s, while an agent is not alive.           *)
(***************************************************************************)
LiveDtChoices == {Sec10(11), Sec10(90)}

InitLive ==
  /\ dinosaurs = <<>>
  /\ nextDinosaurId = 0
  /\ detectedHands = <<>>
  /\ heightField \in {"ground", "lavaWest"}
  /\ speciesInfoTable = QuickDeathTable
  /\ ticks = 0
  /\ scenario = [BaseScenario EXCEPT
                   !.horizon = MaxLiveTicks, !.drain = MaxDrainTicks,
                   !.firstDts = {2}, !.dts = LiveDtChoices,
                   !.drainDts = {Sec10(30)},
                   !.hands = LifeHandLists, !.spawnUntil = 0,
                   !.jitter = {0}, !.dwell = {0}, !.graze = {0},
                   !.angle = {0}]
  /\ pending = LifeInputs
  /\ steps = NoSteps
  /\ search = NoSearch
  /\ facing = NoFacing
  /\ terrainQuery = TerrainQuery(TRUE, Zero, Zero)
  /\ scan = NoScan

\* update is the only step that counts a tick, and it can be taken whenever
\* it is called (every tick length has an outcome), so "the frame loop keeps
\* calling update" is weak fairness of the counted tick
FrameLoop == UpdateCalled /\ ticks' = ticks + 1

SpecLive == InitLive /\ [][Next]_vars /\ WF_ticks(FrameLoop)

(***************************************************************************)
(* Two predators at one prey: a T-Rex 0.01 west of a Triceratops and a     *)
(* Velociraptor 0.015 east of it, under the catalog of the quick death.    *)
(***************************************************************************)
PackInputs ==
  {<<DINO_TREX, Vec(0, 0, 0)>>, <<DINO_TRICERATOPS, Vec(Len100(1), 0, 0)>>,
   <<DINO_VELOCIRAPTOR, Vec(Len100(5) \div 2, 0, 0)>>}

InitPack ==
  /\ dinosaurs = <<>>
  /\ nextDinosaurId = 0
  /\ detectedHands = <<>>
  /\ heightField \in {"ground", "lavaWest"}
  /\ speciesInfoTable = QuickDeathTable
  /\ ticks = 0
  /\ scenario = [BaseScenario EXCEPT
                   !.horizon = MaxPackTicks, !.firstDts = {2},
                   !.dts = LiveDtChoices, !.hands = LifeHandLists,
                   !.spawnUntil = 0, !.jitter = {0}, !.dwell = {0},
                   !.graze = {0}, !.angle = {0}]
  /\ pending = PackInputs
  /\ steps = NoSteps
  /\ search = NoSearch
  /\ facing = NoFacing
  /\ terrainQuery = TerrainQuery(TRUE, Zero, Zero)
  /\ scan = NoScan

SpecPack == InitPack /\ [][Next]_vars

(***************************************************************************)
(* Every AI state in one run: the catalog of the quick death, a T-Rex at   *)
(* the centre and a Stegosaurus 0.025 east of it, within the sight of the  *)
(* T-Rex and out of its reach, so that the T-Rex has to chase it first.    *)
(* The Stegosaurus runs at 3.0 per second and the T-Rex at 4.0: ticks of   *)
(* 1/300 s bring the T-Rex within reach, a tick of 1/150 s takes the       *)
(* Stegosaurus out of its sight and not out of twice its reach, and ticks  *)
(* of 1.1 s or 9 s end the attack and play the death.                      *)
(***************************************************************************)
StalkInputs ==
  {<<DINO_TREX, Vec(0, 0, 0)>>, <<DINO_STEGOSAURUS, Vec(Len100(5) \div 2, 0, 0)>>}
StalkDtChoices == {1, 1 + 1, Sec10(11), Sec10(90)}

InitStalk ==
  /\ dinosaurs = <<>>
  /\ nextDinosaurId = 0
  /\ detectedHands = <<>>
  /\ heightField = "ground"
  /\ speciesInfoTable = QuickDeathTable
  /\ ticks = 0
  /\ scenario = [BaseScenario EXCEPT
                   !.horizon = MaxStalkTicks, !.firstDts = {1},
                   !.dts = StalkDtChoices, !.hands = LifeHandLists,
                   !.spawnUntil = 0, !.jitter = {0}, !.dwell = {0},
                   !.graze = {0}, !.angle = {0}]
  /\ pending = StalkInputs
  /\ steps = NoSteps
  /\ search = NoSearch
  /\ facing = NoFacing
  /\ terrainQuery = TerrainQuery(TRUE, Zero, Zero)
  /\ scan = NoScan

SpecStalk == InitStalk /\ [][Next]_vars

(***************************************************************************)

(* Runs in which every random draw is fixed: a T-Rex 0.01 west of the      *)
(* centre line, which is on lava when the western half is, and two         *)
(* Triceratops east of it, under the shipped catalog.                      *)
(***************************************************************************)
TwinInputs ==
  {<<DINO_TREX, Vec(-Len100(1), 0, 0)>>, <<DINO_TRICERATOPS, Vec(Len100(1), 0, 0)>>,
   <<DINO_TRICERATOPS, Vec(Len10(4), 0, 0)>>}

InitTwin ==
  /\ dinosaurs = <<>>
  /\ nextDinosaurId = 0
  /\ detectedHands = <<>>
  /\ heightField \in {"ground", "lavaWest"}
  /\ speciesInfoTable = ShippedTable
  /\ ticks = 0
  /\ scenario = [BaseScenario EXCEPT
                   !.horizon = MaxTwinTicks, !.spawnUntil = MaxTwinTicks,
                   !.jitter = {0}, !.dwell = {0}, !.graze = {0}, !.angle = {0}]
  /\ pending = TwinInputs
  /\ steps = NoSteps
  /\ search = NoSearch
  /\ facing = NoFacing
  /\ terrainQuery = TerrainQuery(TRUE, Zero, Zero)
  /\ scan = NoScan

SpecTwin == InitTwin /\ [][Next]_vars

(***************************************************************************)
(* A chase across a long field: setBounds has made the bounds 30 world     *)
(* lengths wide, more than any predator of the shipped catalog sees.  A    *)
(* Velociraptor is spawned 1.0 west of a Gallimimus, within its reach; the *)
(* Gallimimus runs at 6.0 per second, so a tick of 9 s takes it out of the *)
(* raptor's sight and a tick of 1.1 s leaves it in sight and out of reach. *)
(***************************************************************************)
WideBounds ==
  [DefaultBounds EXCEPT !.minX = -Len10(150), !.maxX = Len10(150)]

ChaseInputs ==
  {<<DINO_VELOCIRAPTOR, Vec(-Len10(50), 0, 0)>>,
   <<DINO_GALLIMIMUS, Vec(-Len10(40), 0, 0)>>}

InitChase ==
  /\ dinosaurs = <<>>
  /\ nextDinosaurId = 0
  /\ detectedHands = <<>>
  /\ heightField = "ground"
  /\ speciesInfoTable = ShippedTable
  /\ ticks = 0
  /\ scenario = [BaseScenario EXCEPT
                   !.bounds = WideBounds,
                   !.horizon = MaxChaseTicks, !.spawnUntil = MaxChaseTicks,
                   !.firstDts = {Sec10(11), Sec10(90)},
                   !.dts = {Sec10(11), Sec10(90)},
                   !.jitter = {0}, !.dwell = {0}, !.graze = {0}, !.angle = {0}]
  /\ pending = ChaseInputs
  /\ steps = NoSteps
  /\ search = NoSearch
  /\ facing = NoFacing
  /\ terrainQuery = TerrainQuery(TRUE, Zero, Zero)
  /\ scan = NoScan

SpecChase == InitChase /\ [][Next]_vars

(***************************************************************************)
(* A herbivore's day: a Triceratops near the centre, spawned with its      *)
(* state timer at 0 or at 1.0 s, a hand that comes within the flee radius  *)
(* and goes, and ticks of 0.9 s and 2.1 s, which step the state timer to   *)
(* both sides of the dwell limits 1.0, 2.0, 4.0 and 6.0 s.  A wander       *)
(* target is drawn at distance 0 or at half the wander radius.  A T-Rex    *)
(* may be spawned at the centre at any time.                               *)
(***************************************************************************)
GrazeInputs ==
  {<<DINO_TRICERATOPS, Vec(Len100(1), 0, 0)>>, <<DINO_TREX, Vec(0, 0, 0)>>}

InitGraze ==
  /\ dinosaurs = <<>>
  /\ nextDinosaurId = 0
  /\ detectedHands = <<>>
  /\ heightField = "ground"
  /\ speciesInfoTable = ShippedTable
  /\ ticks = 0
  /\ scenario = [BaseScenario EXCEPT
                   !.horizon = MaxGrazeTicks, !.spawnUntil = MaxGrazeTicks,
                   !.firstDts = {Sec10(9), Sec10(21)},
                   !.dts = {Sec10(9), Sec10(21)},
                   !.timer = {0, 50}, !.wander = {0, 50}, !.jitter = {0}]
  /\ pending = GrazeInputs
  /\ steps = NoSteps
  /\ search = NoSearch
  /\ facing = NoFacing
  /\ terrainQuery = TerrainQuery(TRUE, Zero, Zero)
  /\ scan = NoScan

SpecGraze == InitGraze /\ [][Next]_vars

(***************************************************************************)
(* The spawn search on its own: spawnDinosaurRandom over every height      *)
(* field, level ground, lava on the western half, lava everywhere.         *)
(***************************************************************************)
SearchSpecies == {DINO_TREX, DINO_TRICERATOPS}

\* spawnDinosaurRandom(species)
SpawnRandom ==
  /\ nextDinosaurId < MaxRandomSpawns
  /\ \E species \in SearchSpecies, r \in SearchOutcomes,
        dirDraw \in DirectionDraws, timerDraw \in TimerDraws :
       /\ search' = [called |-> TRUE, pos |-> r.pos, attempts |-> r.attempts,
                     found |-> r.found]
       /\ dinosaurs' = Append(dinosaurs,
                              NewDinosaur(species, nextDinosaurId, r.pos,
                                          dirDraw, timerDraw))
  /\ nextDinosaurId' = nextDinosaurId + 1
  /\ UNCHANGED <<detectedHands, heightField, speciesInfoTable, ticks, scenario,
                 pending, steps, facing, terrainQuery, scan>>

InitSearch ==
  /\ dinosaurs = <<>>
  /\ nextDinosaurId = 0
  /\ detectedHands = <<>>
  /\ heightField \in HeightFields
  /\ speciesInfoTable = ShippedTable
  /\ ticks = 0
  /\ scenario = BaseScenario
  /\ pending = {}
  /\ steps = NoSteps
  /\ search = NoSearch
  /\ facing = NoFacing
  /\ terrainQuery = TerrainQuery(TRUE, Zero, Zero)
  /\ scan = NoScan

NextSearch == SpawnRandom

SpecSearch == InitSearch /\ [][NextSearch]_vars

(***************************************************************************)
(* calculateDirection on its own, over a grid of planar velocities.        *)
(***************************************************************************)
Velocities == {Vec(x, y, 0) : x \in -MaxSpeed..MaxSpeed, y \in -MaxSpeed..MaxSpeed}

\* calculateDirection(velocity)
Classify ==
  /\ \E velocity \in Velocities :
       facing' = [called |-> TRUE, velocity |-> velocity,
                  direction |-> calculateDirection(velocity)]
  /\ UNCHANGED <<dinosaurs, nextDinosaurId, detectedHands, heightField,
                 speciesInfoTable, ticks, scenario, pending, steps, search,
                 terrainQuery, scan>>

InitFacing ==
  /\ dinosaurs = <<>>
  /\ nextDinosaurId = 0
  /\ detectedHands = <<>>
  /\ heightField = "ground"
  /\ speciesInfoTable = ShippedTable
  /\ ticks = 0
  /\ scenario = BaseScenario
  /\ pending = {}
  /\ steps = NoSteps
  /\ search = NoSearch
  /\ facing = NoFacing
  /\ terrainQuery = TerrainQuery(TRUE, Zero, Zero)
  /\ scan = NoScan

NextFacing == Classify

SpecFacing == InitFacing /\ [][NextFacing]_vars

(***************************************************************************)
(* TerrainQuery on its own: its refreshes, queries and settings, on an     *)
(* object built with or without a water table.                            *)
(***************************************************************************)
OtherTerrainState ==
  <<dinosaurs, nextDinosaurId, detectedHands, heightField, speciesInfoTable,
    ticks, scenario, pending, steps, search, facing, scan>>

\* a variant that reads the grids back on every call
TerrainQuery_updateEveryCall ==
  /\ IF ~terrainQuery.waterTable
     THEN terrainQuery' = terrainQuery
     ELSE \E read \in Readbacks :
            terrainQuery' = [terrainQuery EXCEPT !.updateCounter = 0,
                                                 !.terrainGrid = read.terrain,
                                                 !.waterGrid = read.water,
                                                 !.dataValid = TRUE]
  /\ UNCHANGED OtherTerrainState

\* TerrainQuery::update(contextData)
TerrainQuery_update ==
  /\ IF ~terrainQuery.waterTable
     THEN terrainQuery' = terrainQuery
     ELSE IF terrainQuery.updateCounter + 1 < terrainQuery.updateFrequency
     THEN terrainQuery' = [terrainQuery EXCEPT !.updateCounter = @ + 1]
     ELSE \E read \in Readbacks :
            terrainQuery' = [terrainQuery EXCEPT !.updateCounter = 0,
                                                 !.terrainGrid = read.terrain,
                                                 !.waterGrid = read.water,
                                                 !.dataValid = TRUE]
  /\ UNCHANGED OtherTerrainState

\* TerrainQuery::query(worldX, worldY), its result kept with the validity
\* of the data it was made on
TerrainQuery_query ==
  /\ \E at \in QueryPoints :
       terrainQuery' =
         [terrainQuery EXCEPT !.last =
            [called |-> TRUE, dataValid |-> terrainQuery.dataValid]
              @@ query(terrainQuery, at[1], at[2])]
  /\ UNCHANGED OtherTerrainState

\* TerrainQuery::setUpdateFrequency(frames)
TerrainQuery_setUpdateFrequency ==
  /\ \E frames \in {0, 1 + 1} :
       terrainQuery' = [terrainQuery EXCEPT !.updateFrequency = Max(1, frames)]
  /\ UNCHANGED OtherTerrainState

InitTerrain ==
  /\ dinosaurs = <<>>
  /\ nextDinosaurId = 0
  /\ detectedHands = <<>>
  /\ heightField = "ground"
  /\ speciesInfoTable = ShippedTable
  /\ ticks = 0
  /\ scenario = BaseScenario
  /\ pending = {}
  /\ steps = NoSteps
  /\ search = NoSearch
  /\ facing = NoFacing
  /\ \E hasWaterTable \in BOOLEAN, zMin \in UninitZ, zMax \in UninitZ :
       terrainQuery = TerrainQuery(hasWaterTable, Vec(0, 0, zMin), Vec(0, 0, zMax))
  /\ scan = NoScan

NextTerrain ==
  TerrainQuery_update \/ TerrainQuery_query \/ TerrainQuery_setUpdateFrequency

SpecTerrain == InitTerrain /\ [][NextTerrain]_vars

(***************************************************************************)
(* The scans on their own: findNearestThreat, calculateHerdCenter and      *)
(* findNearestPrey over registries of three agents.  The first agent is a  *)
(* Triceratops just west of the centre line, which is lava under the       *)
(* height field "lavaWest"; the other two are drawn from predators and     *)
(* herbivores at distances on both sides of 0.01, of the herd radius and   *)
(* of the sight ranges, the herbivores alive, Dying or Dead.  The bounds   *)
(* are the wide ones, which hold an agent at the edge of a herbivore's     *)
(* sight.                                                                  *)
(***************************************************************************)
ScanOrigin == Vec(-6, 0, 0)

\* a record as the kill and the end of the Die animation leave it
ScanAgent(species, id, dx, life) ==
  LET d == NewDinosaur(species, id, [ScanOrigin EXCEPT !.x = @ + dx], 0, 0)
  IN  CASE life = "alive" -> d
        [] life = "dying" -> Kill(d)
        [] life = "dead"  -> [Kill(d) EXCEPT !.aiState = AI_DEAD,
                                             !.currentFrame =
                                                getSpeciesInfo(species)
                                                  .framesPerAction[ACTION_DIE] - 1,
                                             !.alpha = 0, !.isVisible = FALSE,
                                             !.respawnTimer = respawnDelay]

\* the agents a slot may hold: predators are always alive, because only
\* herbivores ever become a target
ScanOthers(id) ==
  {ScanAgent(DINO_TREX, id, dx, "alive") : dx \in {6, Len10(150)}}
    \cup {ScanAgent(DINO_VELOCIRAPTOR, id, dx, "alive") :
            dx \in {Len100(5), Len10(150) - 1}}
    \cup {ScanAgent(DINO_TRICERATOPS, id, dx, life) :
            dx \in {Len100(2)}, life \in {"alive", "dying", "dead"}}
    \cup {ScanAgent(DINO_TRICERATOPS, id, dx, "alive") :
            dx \in {Len100(10), Len100(15), Len10(180)}}
    \cup {ScanAgent(DINO_STEGOSAURUS, id, dx, "alive") : dx \in {Len100(1)}}

ScanRegistries ==
  {<<ScanAgent(DINO_TRICERATOPS, 0, 0, "alive"), a, b>> :
     a \in ScanOthers(1), b \in ScanOthers(1 + 1)}

ScanHands ==
  {<<>>,
   <<[ScanOrigin EXCEPT !.x = @ + 3]>>,
   <<[ScanOrigin EXCEPT !.x = @ + Len100(15)],
     [ScanOrigin EXCEPT !.x = @ + Len100(10)]>>}

\* updateDinosaurAI of an alive herbivore: the threat scan, and the herd
\* centre a herbivore leaving Idle asks for
ScanThreat ==
  /\ \E i \in DOMAIN dinosaurs :
       /\ dinosaurs[i].isAlive /\ isHerbivore(dinosaurs[i].species)
       /\ scan' = [called |-> TRUE, kind |-> "threat", subject |-> i,
                   threat |-> findNearestThreat(dinosaurs, dinosaurs[i]),
                   herdCenter |-> calculateHerdCenter(dinosaurs, dinosaurs[i])]
  /\ UNCHANGED <<dinosaurs, nextDinosaurId, detectedHands, heightField,
                 speciesInfoTable, ticks, scenario, pending, steps, search,
                 facing, terrainQuery>>

\* updateDinosaurAI of an alive predator: the prey scan
ScanPrey ==
  /\ \E i \in DOMAIN dinosaurs :
       /\ dinosaurs[i].isAlive /\ isPredator(dinosaurs[i].species)
       /\ scan' = [called |-> TRUE, kind |-> "prey", subject |-> i,
                   prey |-> findNearestPrey(dinosaurs, dinosaurs[i])]
  /\ UNCHANGED <<dinosaurs, nextDinosaurId, detectedHands, heightField,
                 speciesInfoTable, ticks, scenario, pending, steps, search,
                 facing, terrainQuery>>

InitScan ==
  /\ speciesInfoTable = ShippedTable
  /\ scenario = [BaseScenario EXCEPT !.bounds = WideBounds]
  /\ dinosaurs \in ScanRegistries
  /\ nextDinosaurId = 1 + 1 + 1
  /\ detectedHands \in ScanHands
  /\ heightField \in {"ground", "lavaWest"}
  /\ ticks = 0
  /\ pending = {}
  /\ steps = NoSteps
  /\ search = NoSearch
  /\ facing = NoFacing
  /\ terrainQuery = TerrainQuery(TRUE, Zero, Zero)
  /\ scan = NoScan

NextScan == ScanThreat \/ ScanPrey

SpecScan == InitScan /\ [][NextScan]_vars

(***************************************************************************)
(* The last tick, as the claims below read it from the record in steps.    *)
(***************************************************************************)
Stepped == DOMAIN steps.log                 \* the agents the last tick ran
AtStart(i) == steps.log[1].before[i]        \* agent i when the tick began
RegistryBeforeAI(i) == steps.log[i].before  \* the registry its AI step found
BeforeAI(i) == steps.log[i].before[i]
AfterAI(i) == steps.log[i].ai[i]
AfterAnimation(i) == steps.log[i].anim[i]
AtEnd(i) == steps.end[i]                    \* agent i when the tick ended

Reach(d) == getSpeciesInfo(d.species).attackRange
Sight(d) == getSpeciesInfo(d.species).sightRange
LastDieFrame(d) == getSpeciesInfo(d.species).framesPerAction[ACTION_DIE] - 1

(***************************************************************************)
(* C1.  The kill scenario.                                                 *)
(***************************************************************************)
\* the last tick ran exactly predator p and live herbivore h, on level ground
\* without threat points, and they were closer than the predator's reach
\* before either agent's step and at the end
KillScenarioTick(p, h) ==
  /\ Len(steps.log) = 2 /\ p # h
  /\ steps.hands = <<>> /\ heightField = "ground"
  /\ isPredator(AtStart(p).species) /\ AtStart(p).isAlive
  /\ isHerbivore(AtStart(h).species) /\ AtStart(h).isAlive
  /\ \A reg \in {steps.log[1].before, steps.log[2].before, steps.end} :
       MagLess(VSub(reg[h].position, reg[p].position), Reach(reg[p]))

\* C1: in the kill scenario the predator is Attacking at the end of the tick,
\* and a tick that brings its time in Attacking on this herbivore above
\* 1.0 s leaves the herbivore with isAlive = false.
C1_KillScenario ==
  \A p, h \in Stepped :
    KillScenarioTick(p, h) =>
      /\ AtEnd(p).aiState = AI_ATTACKING
      /\ (/\ AtStart(p).aiState = AI_ATTACKING
          /\ AtStart(p).targetDinoId = AtStart(h).id
          /\ AtStart(p).stateTimer + steps.dt > Sec10(10))
           => ~AtEnd(h).isAlive

(***************************************************************************)
(* C2.  A herbivore that sees a predator flees.                            *)
(***************************************************************************)
\* agent i was, at its AI step, a live herbivore with a live predator
\* strictly inside its own sight range
ThreatenedHerbivore(i) ==
  LET ds == RegistryBeforeAI(i)
  IN  /\ ds[i].isAlive /\ isHerbivore(ds[i].species)
      /\ \E j \in DOMAIN ds :
           /\ j # i /\ ds[j].isAlive /\ isPredator(ds[j].species)
           /\ MagLess(VSub(ds[j].position, ds[i].position), Sight(ds[i]))

\* C2: a live herbivore with a live predator strictly inside its sight range
\* at its AI step is Fleeing at the end of that tick, whatever it was before.
C2_ThreatenedHerbivoreFlees ==
  \A i \in Stepped : ThreatenedHerbivore(i) => AtEnd(i).aiState = AI_FLEEING

\* a grazing herbivore that a predator made flee
C2_GrazerFlees ==
  \E i \in Stepped :
    /\ ThreatenedHerbivore(i)
    /\ BeforeAI(i).aiState = AI_GRAZING
    /\ AtEnd(i).aiState = AI_FLEEING

(***************************************************************************)
(* C3.  A predator with prey in reach attacks.                             *)
(***************************************************************************)
\* agent i was, at its AI step, a live predator off lava that had found prey
PredatorWithPrey(i) ==
  LET ds == RegistryBeforeAI(i)
  IN  /\ ds[i].isAlive /\ isPredator(ds[i].species)
      /\ ~queryTerrain(ds[i].position).isLava
      /\ findNearestPrey(ds, ds[i]).found

PreyDist2(i) == findNearestPrey(RegistryBeforeAI(i), BeforeAI(i)).dist2

\* the velocity the avoidance alone gives agent d
AvoidanceVelocity(d) ==
  LET avoidance == calculateAvoidanceVector(d)
  IN  IF Negligible(avoidance, UnitScale) THEN Zero
      ELSE VDiv(VTimes(avoidance, getSpeciesInfo(d.species).walkSpeed),
                2 * UnitScale)

\* C3, as stated: prey at distance <= attackRange leaves the predator
\* Attacking, with action Attack, velocity zero and state timer 0.
C3_AttacksWithinReach ==
  \A i \in Stepped :
    (PredatorWithPrey(i) /\ PreyDist2(i) <= Reach(BeforeAI(i)) * Reach(BeforeAI(i)))
      => /\ AfterAI(i).aiState = AI_ATTACKING
         /\ AfterAI(i).currentAction = ACTION_ATTACK
         /\ AfterAI(i).velocity = Zero
         /\ AfterAI(i).stateTimer = 0

\* C3, amended: prey at distance < attackRange leaves the predator
\* Attacking, with action Attack and state timer 0, and with the velocity
\* that the hazard and boundary avoidance alone gives it (zero when there is
\* nothing to avoid).
C3_AttacksStrictlyWithinReach ==
  \A i \in Stepped :
    (PredatorWithPrey(i) /\ PreyDist2(i) < Reach(BeforeAI(i)) * Reach(BeforeAI(i)))
      => /\ AfterAI(i).aiState = AI_ATTACKING
         /\ AfterAI(i).currentAction = ACTION_ATTACK
         /\ AfterAI(i).velocity = AvoidanceVelocity(BeforeAI(i))
         /\ AfterAI(i).stateTimer = 0

\* a predator that attacks while the avoidance pushes it
C3_AttackerPushed ==
  \E i \in Stepped :
    /\ PredatorWithPrey(i)
    /\ PreyDist2(i) < Reach(BeforeAI(i)) * Reach(BeforeAI(i))
    /\ AfterAI(i).aiState = AI_ATTACKING
    /\ AfterAI(i).velocity # Zero

(***************************************************************************)
(* C4, C5, C6.  The flags and the opacity, in every state.                 *)
(***************************************************************************)
\* C4: for every agent, isAlive = false holds if and only if the AI state
\* is Dying or Dead.
C4_AliveIffNotDyingOrDead ==
  \A i \in DOMAIN dinosaurs :
    ~dinosaurs[i].isAlive <=> dinosaurs[i].aiState \in {AI_DYING, AI_DEAD}

\* one agent is dying or dead and another one is neither
C4_OneDownOneUp ==
  \E i, j \in DOMAIN dinosaurs :
    /\ ~dinosaurs[i].isAlive /\ dinosaurs[i].aiState \in {AI_DYING, AI_DEAD}
    /\ dinosaurs[j].isAlive /\ dinosaurs[j].aiState \notin {AI_DYING, AI_DEAD}

\* C5: for every agent, isVisible = false implies AI state Dead; the agent
\* is visible in every other state, Dying included, and after a respawn.
C5_InvisibleOnlyWhenDead ==
  \A i \in DOMAIN dinosaurs :
    ~dinosaurs[i].isVisible => dinosaurs[i].aiState = AI_DEAD

\* a respawn has just made an invisible agent visible
C5_RespawnedVisible ==
  \E i \in Stepped :
    /\ ~BeforeAI(i).isVisible /\ BeforeAI(i).aiState = AI_DEAD
    /\ AtEnd(i).isVisible /\ AtEnd(i).aiState # AI_DEAD

FadeCompletes(i) ==
  /\ AfterAI(i).aiState = AI_DYING /\ AfterAI(i).alpha > 0
  /\ AfterAnimation(i).alpha <= 0

\* C8: the Animation step that brings a Dying agent's alpha to 0 or below
\* makes the agent Dead and invisible and sets its respawn countdown to the
\* configured delay; and a tick that finds the agent Dead only takes the tick
\* length off the countdown, so the countdown is never set back to the delay.
C8_DeadExactlyOnce ==
  \A i \in Stepped :
    /\ FadeCompletes(i) =>
         /\ AfterAnimation(i).aiState = AI_DEAD
         /\ ~AfterAnimation(i).isVisible
         /\ AfterAnimation(i).respawnTimer = respawnDelay
    /\ BeforeAI(i).aiState = AI_DEAD =>
         /\ AtEnd(i).respawnTimer = BeforeAI(i).respawnTimer - steps.dt
         /\ AtEnd(i).respawnTimer < respawnDelay

\* the fade of an agent has just completed
C8_FadeJustCompleted ==
  \E i \in Stepped : FadeCompletes(i) /\ AtEnd(i).aiState = AI_DEAD

(***************************************************************************)
(* C9, C10.  The respawn.                                                  *)
(***************************************************************************)
\* the AI step of agent i found it Dead with a countdown that the tick
\* length brings to 0 or below
Respawning(i) ==
  /\ ~BeforeAI(i).isAlive /\ BeforeAI(i).aiState = AI_DEAD
  /\ BeforeAI(i).respawnTimer - steps.dt <= 0

\* C9: a Dead agent whose countdown is 0 or below after the tick length is
\* taken off is, at the end of that tick, alive, visible, Idle, of alpha 1,
\* and at a position that the spawn search returns, with the elevation the
\* terrain oracle gives for that position.
C9_RespawnsWhenCountdownOver ==
  \A i \in Stepped :
    Respawning(i) =>
      /\ AtEnd(i).isAlive /\ AtEnd(i).isVisible
      /\ AtEnd(i).aiState = AI_IDLE
      /\ AtEnd(i).alpha = AlphaScale
      /\ AtEnd(i).position \in findValidSpawnPosition
      /\ AtEnd(i).position.z = queryTerrain(AtEnd(i).position).elevation

\* an agent has just respawned, away from where it died
C9_RespawnedElsewhere ==
  \E i \in Stepped :
    /\ Respawning(i) /\ AtEnd(i).isAlive
    /\ AtEnd(i).position # BeforeAI(i).position

Slots == 1..Cardinality(LifeInputs)
Ids == 0..(Cardinality(LifeInputs) - 1)

InState(i, state) == i \in DOMAIN dinosaurs /\ dinosaurs[i].aiState = state

\* slot i holds the agent of this id and species, Dead
DeadAs(i, id, species) ==
  /\ InState(i, AI_DEAD)
  /\ dinosaurs[i].id = id /\ dinosaurs[i].species = species

\* slot i holds the agent of this id and species, alive and Idle
IdleAs(i, id, species) ==
  /\ InState(i, AI_IDLE) /\ dinosaurs[i].isAlive
  /\ dinosaurs[i].id = id /\ dinosaurs[i].species = species

\* C11: under repeated ticks every agent that is Dying eventually is Dead,
\* and every Dead agent eventually is alive and Idle again, in the same
\* registry slot and with the same id and species.
C11_LifeCycleCompletes ==
  \A i \in Slots :
    /\ InState(i, AI_DYING) ~> InState(i, AI_DEAD)
    /\ \A id \in Ids, species \in DinosaurSpecies :
         DeadAs(i, id, species) ~> IdleAs(i, id, species)

\* an agent that died has respawned and runs its first step alive again
C11_BackToLife ==
  \E i \in Stepped : Respawning(i) /\ AtEnd(i).isAlive /\ AtEnd(i).aiState = AI_IDLE

(***************************************************************************)
(* Identity                                                                *)
(***************************************************************************)
\* the registry lists its ids in strictly increasing order, all of them
\* handed out already
IdsIncreasing(ds, nextId) ==
  /\ \A i, j \in DOMAIN ds : i < j => ds[i].id < ds[j].id
  /\ \A i \in DOMAIN ds : ds[i].id < nextId

\* C12: in every step the registry keeps every record with its id and
\* species, ids stay pairwise distinct and strictly increasing along the
\* registry and below the next id to hand out, the registry never gets
\* shorter, and a tick leaves its length alone.
C12_IdentityStable ==
  [][/\ Len(dinosaurs') >= Len(dinosaurs)
     /\ \A i \in DOMAIN dinosaurs :
          /\ dinosaurs'[i].id = dinosaurs[i].id
          /\ dinosaurs'[i].species = dinosaurs[i].species
     /\ IdsIncreasing(dinosaurs', nextDinosaurId')
     /\ nextDinosaurId' >= nextDinosaurId
     /\ ticks' # ticks => Len(dinosaurs') = Len(dinosaurs)]_vars

\* a full registry in which an agent was killed and has respawned
C12_RespawnedInPlace ==
  /\ Len(dinosaurs) = Cardinality(LifeInputs)
  /\ \E i \in Stepped : i > 1 /\ Respawning(i) /\ AtEnd(i).isAlive

(***************************************************************************)
(* Animation frames                                                        *)
(***************************************************************************)
FrameInRange(d) ==
  /\ 0 <= d.currentFrame
  /\ d.currentFrame < getSpeciesInfo(d.species).framesPerAction[d.currentAction]

\* C13: the frame index of every agent lies in [0, framesPerAction) of its
\* current action, between ticks and also inside a tick, after every AI
\* step and after every Animation step.
C13_FrameInRange ==
  /\ \A i \in DOMAIN dinosaurs : FrameInRange(dinosaurs[i])
  /\ \A i \in Stepped :
       \A j \in DOMAIN steps.log[i].ai :
         /\ FrameInRange(steps.log[i].ai[j])
         /\ FrameInRange(steps.log[i].anim[j])

\* a Dying agent on the last Die frame whose frame timer ran out again
C13_HeldOnLastFrame ==
  \E i \in Stepped :
    /\ BeforeAI(i).aiState = AI_DYING
    /\ BeforeAI(i).currentFrame = LastDieFrame(BeforeAI(i))
    /\ BeforeAI(i).animationTimer + steps.dt >= BeforeAI(i).frameTime
    /\ AfterAnimation(i).currentFrame = LastDieFrame(BeforeAI(i))

(***************************************************************************)
(* The spawn search                                                        *)
(***************************************************************************)
\* C14: the search draws at most 100 samples and returns a position: a
\* sample that is safe, or the centre of the bounds, and the centre only
\* after 100 samples when unsafe samples exist; the elevation returned is
\* the terrain's at the returned planar point, and the position is the one
\* the agent is spawned at.
C14_SafeSampleOrCentre ==
  search.called =>
    /\ search.attempts >= 1 /\ search.attempts <= spawnAttempts
    /\ search.found => isPositionSafe(search.pos)
    /\ ~search.found =>
         /\ search.attempts = spawnAttempts
         /\ search.pos.x = boundsCenter(0).x /\ search.pos.y = boundsCenter(0).y
         /\ \E p \in SpawnSamples : ~isPositionSafe(p)
    /\ search.pos.z = queryTerrain(search.pos).elevation
    /\ dinosaurs[Len(dinosaurs)].position = search.pos

\* the search fell back to the centre although safe samples could be drawn
C14_FellBackToCentre ==
  /\ search.called /\ ~search.found
  /\ \E p \in SpawnSamples : isPositionSafe(p)

(***************************************************************************)
(* Direction classification                                                *)
(***************************************************************************)
\* the compass sector of the planar angle of a velocity:
\* floor((a + 22.5) / 45) mod 8 in the order E, NE, N, NW, W, SW, S, SE
SectorOf(velocity) == angleToDir[SectorIndex(velocity.x, velocity.y) + 1]

\* the opposite point of the compass
Opposite(direction) == (direction + DIR_NUM_DIRECTIONS \div 2) % DIR_NUM_DIRECTIONS

\* velocities at 9.5 and at 189.5 degrees
NearlyEast == Vec(MaxSpeed, 1, 0)
NearlyWest == Vec(-MaxSpeed, -1, 0)

C16_StillKeepsFacing ==
  \A i \in Stepped :
    (Negligible(AfterAI(i).velocity, VelScale) \/ AfterAI(i).aiState = AI_DYING) =>
      AtEnd(i).direction = AtStart(i).direction

\* a Dying agent went through a tick facing another way than the
\* classification of its velocity would have it
C16_DyingKeepsFacing ==
  \E i \in Stepped :
    /\ AfterAI(i).aiState = AI_DYING
    /\ AtEnd(i).direction # calculateDirection(AfterAI(i).velocity)

(***************************************************************************)
(* Order of the steps of a tick                                            *)
(***************************************************************************)
\* agent j as it stands when agent i has been stepped
AfterStepOf(i, j) ==
  IF i = Len(steps.log) THEN steps.end[j] ELSE steps.log[i + 1].before[j]

\* C17: a tick steps every agent of the registry once, in registry order;
\* the Animation step of agent i and its Movement step change no other
\* agent, and the AI step of agent i finds every earlier agent where the
\* tick leaves it and every later agent where the tick found it.
C17_OneAgentAtATime ==
  ticks > 0 =>
    /\ Len(steps.log) = Len(steps.end)
    /\ \A i \in Stepped :
         /\ Len(RegistryBeforeAI(i)) = Len(steps.end)
         /\ \A j \in DOMAIN steps.end :
              /\ j < i => RegistryBeforeAI(i)[j].position = AtEnd(j).position
              /\ j > i => RegistryBeforeAI(i)[j].position = AtStart(j).position
              /\ j # i => /\ steps.log[i].anim[j] = steps.log[i].ai[j]
                          /\ AfterStepOf(i, j) = steps.log[i].ai[j]
         /\ AfterAnimation(i) = updateDinosaurAnimation(AfterAI(i), steps.dt)
         /\ AfterStepOf(i, i) = updateDinosaurMovement(AfterAnimation(i), steps.dt)

\* the second of three agents ran its AI step between the moves of the
\* first and of the third
C17_MiddleAgentSeesBoth ==
  /\ Len(steps.log) = 3
  /\ AtEnd(1).position # AtStart(1).position
  /\ AtEnd(3).position # AtStart(3).position
  /\ RegistryBeforeAI(2)[1].position = AtEnd(1).position
  /\ RegistryBeforeAI(2)[3].position = AtStart(3).position

(***************************************************************************)
(* Attack resolution without a live target                                 *)
(***************************************************************************)
\* the AI step of agent i is an attack resolution: an alive predator off the
\* lava that sees no prey, is Attacking, and whose timer has passed 1.0 s
Resolving(i) ==
  LET dino == BeforeAI(i)
  IN  /\ dino.isAlive /\ isPredator(dino.species)
      /\ ~queryTerrain(dino.position).isLava
      /\ ~findNearestPrey(RegistryBeforeAI(i), dino).found
      /\ dino.aiState = AI_ATTACKING
      /\ dino.stateTimer + steps.dt > Sec10(10)

\* no alive agent carries the id the predator attacks
TargetGone(i) ==
  \A j \in DOMAIN RegistryBeforeAI(i) :
    RegistryBeforeAI(i)[j].id = BeforeAI(i).targetDinoId =>
      ~RegistryBeforeAI(i)[j].isAlive

\* C18: an attack resolution whose target id belongs to no alive agent
\* changes no agent but the predator, and leaves the predator Idle, in
\* action Idle, with its state timer at 0.
C18_ResolutionWithoutTarget ==
  \A i \in Stepped :
    (Resolving(i) /\ TargetGone(i)) =>
      /\ \A j \in DOMAIN RegistryBeforeAI(i) :
           j # i => steps.log[i].ai[j] = RegistryBeforeAI(i)[j]
      /\ AfterAI(i).aiState = AI_IDLE
      /\ AfterAI(i).currentAction = ACTION_IDLE
      /\ AfterAI(i).stateTimer = 0

\* a predator resolves its attack on a prey that another predator killed
\* in an earlier tick and that is part way through its Die animation
C18_TargetDiedEarlier ==
  \E i \in Stepped :
    /\ Resolving(i) /\ TargetGone(i)
    /\ \E j \in DOMAIN RegistryBeforeAI(i) :
         /\ RegistryBeforeAI(i)[j].id = BeforeAI(i).targetDinoId
         /\ RegistryBeforeAI(i)[j].aiState = AI_DYING
         /\ RegistryBeforeAI(i)[j].currentFrame > 0

(***************************************************************************)
(* Movement                                                                *)
(***************************************************************************)
InBounds(pos) ==
  /\ bounds.minX <= pos.x /\ pos.x <= bounds.maxX
  /\ bounds.minY <= pos.y /\ pos.y <= bounds.maxY

\* C19: after its Movement step, and at the end of the tick, every alive
\* agent stands within the planar bounds.
C19_AliveWithinBounds ==
  \A i \in Stepped :
    /\ AfterAnimation(i).isAlive => InBounds(AfterStepOf(i, i).position)
    /\ AtEnd(i).isAlive => InBounds(AtEnd(i).position)

\* an agent spawned outside the bounds was brought back to their edge
C19_BroughtBackInside ==
  \E i \in Stepped :
    /\ AtStart(i).position.x > bounds.maxX
    /\ AtEnd(i).isAlive /\ AtEnd(i).position.x = bounds.maxX

\* C20: a tick does not change the position of an agent that is not alive
\* when its own step begins, be it Dying, Dead with its countdown still
\* running, or killed earlier in the same tick.
C20_NotAliveStaysPut ==
  \A i \in Stepped :
    (~BeforeAI(i).isAlive /\ ~AfterAI(i).isAlive) =>
      AtEnd(i).position = AtStart(i).position

\* an agent killed earlier in the tick went through its own step off its
\* terrain elevation
C20_KilledBeforeItsStep ==
  \E i \in Stepped :
    /\ AtStart(i).isAlive /\ ~BeforeAI(i).isAlive
    /\ BeforeAI(i).position.z # queryTerrain(BeforeAI(i).position).elevation
    /\ AtEnd(i).position = AtStart(i).position

(***************************************************************************)
(* Terrain queries on data that is not valid                               *)
(***************************************************************************)
\* C21: a query made while the data is not valid, or without a water table,
\* returns isValid = FALSE, the midpoint of the elevation range of the
\* domain, no water, and the normal classification.
C21_InvalidQueryFallsBack ==
  (terrainQuery.last.called
     /\ (~terrainQuery.last.dataValid \/ ~terrainQuery.waterTable)) =>
    /\ ~terrainQuery.last.isValid
    /\ terrainQuery.last.terrainHeight = TDiv(tableDomain.min.z + tableDomain.max.z, 2)
    /\ terrainQuery.last.waterDepth = 0
    /\ terrainQuery.last.type = TERRAIN_NORMAL

(***************************************************************************)
(* Determinism                                                             *)
(***************************************************************************)
\* the registries a tick of this length may end with
Outcomes(dt) == {r.end : r \in UpdateFrom(dinosaurs, <<>>, 1, dt)}

\* every draw of the run is fixed
DrawsFixed ==
  /\ \A draws \in {scenario.jitter, scenario.dwell, scenario.graze, scenario.angle,
                   scenario.wander} : Cardinality(draws) = 1
  /\ \A i \in DOMAIN dinosaurs : dinosaurs[i].aiState # AI_DEAD

\* C22: with the registry, the threat points, the terrain answers, the
\* random draws and the tick length all given, a tick has one outcome: two
\* ecosystems in this state are in identical states after it.
C22_OneOutcomePerTick ==
  DrawsFixed => \A dt \in scenario.dts : Cardinality(Outcomes(dt)) = 1

(***************************************************************************)
(* C23.  The shipped catalog and the kill.                                 *)
(***************************************************************************)
\* an alive herbivore other than the predator stands strictly within r of it
PreyWithin(ds, predator, r) ==
  \E j \in DOMAIN ds :
    /\ ds[j].isAlive /\ ds[j].id # predator.id /\ isHerbivore(ds[j].species)
    /\ MagLess(VSub(ds[j].position, predator.position), r)

\* the AI step of agent i came to the attack resolution
ResolutionRan(i) ==
  /\ BeforeAI(i).isAlive /\ isPredator(BeforeAI(i).species)
  /\ BeforeAI(i).aiState = AI_ATTACKING /\ AfterAI(i).aiState = AI_IDLE

\* C23: under the shipped catalog every predator sees at least twice as far
\* as it reaches; an attack resolution runs only when no alive herbivore is
\* within the predator's sight; a predator that is not on lava and has prey
\* within its reach ends its AI step Attacking with its state timer at 0;
\* and every agent, in the registry and at every step of a tick, is alive
\* and neither Dying nor Dead.
C23_NobodyDies ==
  /\ \A s \in DinosaurSpecies :
       isPredator(s) =>
         getSpeciesInfo(s).sightRange >= 2 * getSpeciesInfo(s).attackRange
  /\ \A i \in DOMAIN dinosaurs :
       dinosaurs[i].isAlive /\ dinosaurs[i].aiState \notin {AI_DYING, AI_DEAD}
  /\ \A i \in Stepped :
       /\ ResolutionRan(i) =>
            ~PreyWithin(RegistryBeforeAI(i), BeforeAI(i), Sight(BeforeAI(i)))
       /\ (/\ isPredator(BeforeAI(i).species)
           /\ ~queryTerrain(BeforeAI(i).position).isLava
           /\ PreyWithin(RegistryBeforeAI(i), BeforeAI(i), Reach(BeforeAI(i)))) =>
            AfterAI(i).aiState = AI_ATTACKING /\ AfterAI(i).stateTimer = 0
       /\ \A j \in DOMAIN steps.log[i].ai :
            /\ steps.log[i].ai[j].isAlive
            /\ steps.log[i].ai[j].aiState \notin {AI_DYING, AI_DEAD}

\* an attack resolution ran against a target that had run out of sight, and
\* left it alive
C23_ResolvedOutOfSight ==
  \E i \in Stepped :
    /\ ResolutionRan(i)
    /\ BeforeAI(i).stateTimer + steps.dt > Sec10(10)
    /\ \E j \in DOMAIN dinosaurs :
         /\ RegistryBeforeAI(i)[j].id = BeforeAI(i).targetDinoId
         /\ isHerbivore(dinosaurs[j].species)
         /\ AtEnd(j).isAlive

(***************************************************************************)
(* C24.  What the attack resolution does to the target.                    *)
(***************************************************************************)
\* agent j is the alive agent the predator of step i targets
TargetOf(i, j) ==
  /\ RegistryBeforeAI(i)[j].id = BeforeAI(i).targetDinoId
  /\ RegistryBeforeAI(i)[j].isAlive

\* the target j of step i stands strictly within twice the predator's reach
WithinKillRange(i, j) ==
  MagLess(VSub(RegistryBeforeAI(i)[j].position, BeforeAI(i).position),
          2 * Reach(BeforeAI(i)))

Killed(d) ==
  [d EXCEPT !.isAlive = FALSE, !.aiState = AI_DYING,
            !.currentAction = ACTION_DIE, !.currentFrame = 0,
            !.stateTimer = 0, !.velocity = Zero]

\* C24: an attack resolution leaves the predator Idle; the alive agent with
\* the target id is, if strictly within twice the reach, the same record
\* with isAlive false, state Dying, action Die, frame 0, state timer 0 and
\* zero velocity, and otherwise unchanged; every other agent is unchanged.
C24_ResolutionKillsTargetOnly ==
  \A i \in Stepped :
    Resolving(i) =>
      /\ AfterAI(i).aiState = AI_IDLE
      /\ \A j \in DOMAIN RegistryBeforeAI(i) \ {i} :
           steps.log[i].ai[j] =
             IF TargetOf(i, j) /\ WithinKillRange(i, j)
             THEN Killed(RegistryBeforeAI(i)[j])
             ELSE RegistryBeforeAI(i)[j]

\* a resolution killed a target that was moving
C24_KilledOnTheRun ==
  \E i \in Stepped :
    /\ Resolving(i)
    /\ \E j \in DOMAIN RegistryBeforeAI(i) :
         /\ TargetOf(i, j) /\ WithinKillRange(i, j)
         /\ RegistryBeforeAI(i)[j].velocity # Zero
         /\ ~steps.log[i].ai[j].isAlive

\* a resolution found its target alive and out of range
C24_TargetOutOfRange ==
  \E i \in Stepped :
    /\ Resolving(i)
    /\ \E j \in DOMAIN RegistryBeforeAI(i) :
         TargetOf(i, j) /\ ~WithinKillRange(i, j)

(***************************************************************************)
(* C25.  The threat scan.  Distances are compared by their squares.        *)
(***************************************************************************)
ScanSubject == dinosaurs[scan.subject]
ThreatScanned == scan.called /\ scan.kind = "threat"

\* the candidates, each as <<squared distance, position>>
PredatorCandidates ==
  {<<Mag2(VSub(dinosaurs[j].position, ScanSubject.position)),
     dinosaurs[j].position>> :
     j \in {k \in DOMAIN dinosaurs :
              /\ dinosaurs[k].isAlive /\ dinosaurs[k].id # ScanSubject.id
              /\ isPredator(dinosaurs[k].species)
              /\ MagLess(VSub(dinosaurs[k].position, ScanSubject.position),
                         Sight(ScanSubject))}}

HandCandidates ==
  {<<Mag2(VSub(detectedHands[h], ScanSubject.position)), detectedHands[h]>> :
     h \in {k \in DOMAIN detectedHands :
              MagLess(VSub(detectedHands[k], ScanSubject.position),
                      handFleeRadius)}}

LavaCandidates ==
  IF queryTerrain(ScanSubject.position).isLava
  THEN {<<Len100(1) * Len100(1),
          [ScanSubject.position EXCEPT !.z = lavaElevationThreshold]>>}
  ELSE {}

\* the scan reported one of the candidates cs, none of which is closer
ReportsNearestOf(cs) ==
  /\ scan.threat.found <=> cs # {}
  /\ scan.threat.found =>
       /\ <<scan.threat.dist2, scan.threat.threatPos>> \in cs
       /\ \A c \in cs : scan.threat.dist2 <= c[1]

PreyScanned == scan.called /\ scan.kind = "prey"

\* the alive herbivores other than the subject strictly within its sight
PreyCandidates ==
  {j \in DOMAIN dinosaurs :
     /\ dinosaurs[j].isAlive /\ dinosaurs[j].id # ScanSubject.id
     /\ isHerbivore(dinosaurs[j].species)
     /\ MagLess(VSub(dinosaurs[j].position, ScanSubject.position),
                Sight(ScanSubject))}

\* the alive agents of the subject's species, other than the subject,
\* strictly within the herd radius of it
HerdMembers ==
  {j \in DOMAIN dinosaurs :
     /\ dinosaurs[j].isAlive /\ dinosaurs[j].id # ScanSubject.id
     /\ dinosaurs[j].species = ScanSubject.species
     /\ MagLess(VSub(dinosaurs[j].position, ScanSubject.position), herdRadius)}

RECURSIVE SumOfPositions(_)
SumOfPositions(js) ==
  IF js = {} THEN Zero
  ELSE LET j == CHOOSE k \in js : TRUE
       IN  VAdd(dinosaurs[j].position, SumOfPositions(js \ {j}))

OnLava(i) ==
  /\ BeforeAI(i).isAlive /\ isPredator(BeforeAI(i).species)
  /\ queryTerrain(BeforeAI(i).position).isLava

\* runSpeed times the unit vector from the agent to the centre of the
\* bounds, the centre taken at the height z
TowardCentre(d, z) ==
  VDiv(VTimes(UnitOf(VSub(boundsCenter(z), d.position)),
              getSpeciesInfo(d.species).runSpeed), UnitScale)

\* C27: the AI step of an alive predator on lava changes nothing in the
\* registry but the predator, and in the predator only the state timer
\* (dt added), the state (Fleeing), the action (Run) and the velocity,
\* which is runSpeed times the unit vector toward the centre of the bounds,
\* the centre taken at the agent's own height.
C27_LavaFleeTowardCentre ==
  \A i \in Stepped :
    OnLava(i) =>
      steps.log[i].ai =
        [RegistryBeforeAI(i) EXCEPT
           ![i] = [@ EXCEPT !.stateTimer = @ + steps.dt,
                            !.aiState = AI_FLEEING,
                            !.currentAction = ACTION_RUN,
                            !.velocity =
                               TowardCentre(BeforeAI(i),
                                            BeforeAI(i).position.z)]]

(***************************************************************************)
(* C28.  The end of a flight.  The claims about the herbivore's states     *)
(* read the tick log in the state the tick left, before the hand tracker   *)
(* reports again.                                                          *)
(***************************************************************************)
\* agent i was an alive herbivore when its AI step began
HerbivoreStep(i) ==
  /\ detectedHands = steps.hands
  /\ BeforeAI(i).isAlive /\ isHerbivore(BeforeAI(i).species)

ThreatFound(i) == findNearestThreat(RegistryBeforeAI(i), BeforeAI(i)).found

\* the state timer as the state machine of step i read it
TimerRead(i) == BeforeAI(i).stateTimer + steps.dt

\* step i took the agent to Wandering with a fresh target
BecameWandering(i) ==
  /\ AfterAI(i).aiState = AI_WANDERING
  /\ AfterAI(i).currentAction = ACTION_WALK
  /\ AfterAI(i).stateTimer = 0

\* C28: a herbivore that finds a threat is Fleeing with its state timer at
\* 0; a Fleeing herbivore that finds none stays Fleeing, its timer running
\* on, while the timer is at most 2.0 s, and becomes Wandering, in action
\* Walk, with a fresh wander target and its timer at 0, when the timer
\* exceeds 2.0 s.
C28_FlightEndsAfterTwoSeconds ==
  \A i \in Stepped :
    HerbivoreStep(i) =>
      /\ ThreatFound(i) =>
           AfterAI(i).aiState = AI_FLEEING /\ AfterAI(i).stateTimer = 0
      /\ (~ThreatFound(i) /\ BeforeAI(i).aiState = AI_FLEEING) =>
           IF TimerRead(i) <= Sec10(20)
           THEN /\ AfterAI(i).aiState = AI_FLEEING
                /\ AfterAI(i).stateTimer = TimerRead(i)
           ELSE /\ BecameWandering(i)
                /\ AfterAI(i).targetPosition \in chooseWanderTarget(BeforeAI(i))

\* a flight went on at 1.8 s without a threat
C28_StillFleeing ==
  \E i \in Stepped :
    /\ HerbivoreStep(i) /\ ~ThreatFound(i)
    /\ BeforeAI(i).aiState = AI_FLEEING
    /\ TimerRead(i) > Sec10(10) /\ TimerRead(i) <= Sec10(20)
    /\ AfterAI(i).aiState = AI_FLEEING

\* a flight ended
C28_FlightEnded ==
  \E i \in Stepped :
    /\ HerbivoreStep(i) /\ ~ThreatFound(i)
    /\ BeforeAI(i).aiState = AI_FLEEING
    /\ BecameWandering(i)

(***************************************************************************)
(* C29.  The transitions of the herbivore's state machine.                 *)
(***************************************************************************)
HerbivoreTransitions ==
  {<<AI_FLEEING, AI_FLEEING>>, <<AI_FLEEING, AI_WANDERING>>,
   <<AI_IDLE, AI_IDLE>>, <<AI_IDLE, AI_GRAZING>>, <<AI_IDLE, AI_WANDERING>>,
   <<AI_GRAZING, AI_GRAZING>>, <<AI_GRAZING, AI_WANDERING>>,
   <<AI_WANDERING, AI_WANDERING>>, <<AI_WANDERING, AI_IDLE>>}

\* an alive herbivore is not Hunting or Attacking, an alive predator not
\* Grazing
StateFitsRole(d) ==
  d.isAlive =>
    /\ isHerbivore(d.species) => d.aiState \notin {AI_HUNTING, AI_ATTACKING}
    /\ isPredator(d.species) => d.aiState # AI_GRAZING

\* C29: the AI step of an alive herbivore either ends Fleeing, and then a
\* threat was found or the agent was Fleeing before, or takes one of the
\* transitions Fleeing to Wandering, Idle to Idle, Grazing or Wandering,
\* Grazing to Grazing or Wandering, Wandering to Wandering or Idle; and at
\* every step of a tick no alive herbivore is Hunting or Attacking and no
\* alive predator is Grazing.
C29_HerbivoreStateMachine ==
  /\ \A i \in DOMAIN dinosaurs : StateFitsRole(dinosaurs[i])
  /\ \A i \in Stepped :
       /\ \A j \in DOMAIN steps.log[i].ai : StateFitsRole(steps.log[i].ai[j])
       /\ (BeforeAI(i).isAlive /\ isHerbivore(BeforeAI(i).species)) =>
            \/ AfterAI(i).aiState = AI_FLEEING
            \/ <<BeforeAI(i).aiState, AfterAI(i).aiState>> \in HerbivoreTransitions
       /\ (HerbivoreStep(i) /\ AfterAI(i).aiState = AI_FLEEING) =>
            ThreatFound(i) \/ BeforeAI(i).aiState = AI_FLEEING

\* a Wandering herbivore arrived and became Idle
C29_ArrivedAndIdle ==
  \E i \in Stepped :
    /\ BeforeAI(i).isAlive /\ isHerbivore(BeforeAI(i).species)
    /\ BeforeAI(i).aiState = AI_WANDERING /\ AfterAI(i).aiState = AI_IDLE

(***************************************************************************)
(* C30.  The dwell limits of Idle and Grazing.                             *)
(***************************************************************************)
\* step i began in this state and found no threat
Calm(i, state) ==
  HerbivoreStep(i) /\ ~ThreatFound(i) /\ BeforeAI(i).aiState = state

\* step i left the state and the timer running on
Stayed(i) ==
  /\ AfterAI(i).aiState = BeforeAI(i).aiState
  /\ AfterAI(i).stateTimer = TimerRead(i)

\* C30: a calm Idle herbivore stays Idle while its state timer, dt added,
\* is at most 1.0 s, and becomes Grazing or Wandering with the timer at 0
\* when it exceeds 4.0 s; a calm Grazing herbivore stays Grazing while the
\* timer is at most 2.0 s and becomes Wandering with the timer at 0 when
\* it exceeds 6.0 s; all of it for every draw.
C30_DwellWithinLimits ==
  \A i \in Stepped :
    /\ Calm(i, AI_IDLE) =>
         /\ TimerRead(i) <= Sec10(10) => Stayed(i)
         /\ TimerRead(i) > Sec10(40) =>
              /\ AfterAI(i).aiState \in {AI_GRAZING, AI_WANDERING}
              /\ AfterAI(i).stateTimer = 0
    /\ Calm(i, AI_GRAZING) =>
         /\ TimerRead(i) <= Sec10(20) => Stayed(i)
         /\ TimerRead(i) > Sec10(60) =>
              AfterAI(i).aiState = AI_WANDERING /\ AfterAI(i).stateTimer = 0

\* a herbivore had to leave Idle after 4.0 s
C30_LeftIdleAtLast ==
  \E i \in Stepped :
    /\ Calm(i, AI_IDLE) /\ TimerRead(i) > Sec10(40)
    /\ AfterAI(i).aiState # AI_IDLE

\* a herbivore had to leave Grazing after 6.0 s
C30_LeftGrazingAtLast ==
  \E i \in Stepped :
    /\ Calm(i, AI_GRAZING) /\ TimerRead(i) > Sec10(60)
    /\ AfterAI(i).aiState = AI_WANDERING

\* a herbivore was kept Idle at 0.9 s
C30_KeptIdle ==
  \E i \in Stepped :
    Calm(i, AI_IDLE) /\ TimerRead(i) <= Sec10(10) /\ Stayed(i)

(***************************************************************************)
(* C31.  Wandering: walking and arriving.                                  *)
(***************************************************************************)
\* the vector from the agent of step i to its wander target
ToTarget(i) == VSub(BeforeAI(i).targetPosition, BeforeAI(i).position)

\* walkSpeed times the unit vector toward the target of step i
WalkToTarget(i) ==
  VDiv(VTimes(UnitOf(ToTarget(i)), getSpeciesInfo(BeforeAI(i).species).walkSpeed),
       UnitScale)

C31_WalkedOn ==
  \E i \in Stepped :
    /\ Calm(i, AI_WANDERING)
    /\ Mag2(ToTarget(i)) >= arrivalRadius * arrivalRadius
    /\ AfterAI(i).aiState = AI_WANDERING /\ AfterAI(i).velocity # Zero

Patrolling(i) ==
  /\ BeforeAI(i).isAlive /\ isPredator(BeforeAI(i).species)
  /\ ~queryTerrain(BeforeAI(i).position).isLava
  /\ ~PreyWithin(RegistryBeforeAI(i), BeforeAI(i), Sight(BeforeAI(i)))
  /\ BeforeAI(i).aiState # AI_ATTACKING

\* C32: a patrolling predator ends its AI step Wandering, in action Walk;
\* if it was not Wandering before or its state timer exceeds 5.0 s it has a
\* fresh wander target and its timer at 0, and otherwise its target is kept
\* and its timer runs on; and a predator that is Idle when a tick begins is
\* not Idle when the tick ends.
C32_PatrolRepicksOnTimeout ==
  \A i \in Stepped :
    /\ Patrolling(i) =>
         /\ AfterAI(i).aiState = AI_WANDERING
         /\ AfterAI(i).currentAction = ACTION_WALK
         /\ IF BeforeAI(i).aiState # AI_WANDERING \/ TimerRead(i) > Sec10(50)
            THEN /\ AfterAI(i).stateTimer = 0
                 /\ AfterAI(i).targetPosition \in chooseWanderTarget(BeforeAI(i))
            ELSE /\ AfterAI(i).stateTimer = TimerRead(i)
                 /\ AfterAI(i).targetPosition = BeforeAI(i).targetPosition
    /\ (/\ AtStart(i).isAlive /\ isPredator(AtStart(i).species)
        /\ AtStart(i).aiState = AI_IDLE) =>
         AtEnd(i).aiState # AI_IDLE

\* a predator that had wandered for more than 5.0 s picked a new target
C32_RepickedAfterTimeout ==
  \E i \in Stepped :
    /\ Patrolling(i) /\ BeforeAI(i).aiState = AI_WANDERING
    /\ TimerRead(i) > Sec10(50)
    /\ AfterAI(i).stateTimer = 0
    /\ AfterAI(i).targetPosition # BeforeAI(i).targetPosition

\* a predator that had wandered for less kept its target
C32_KeptTarget ==
  \E i \in Stepped :
    /\ Patrolling(i) /\ BeforeAI(i).aiState = AI_WANDERING
    /\ TimerRead(i) <= Sec10(50)
    /\ AfterAI(i).targetPosition = BeforeAI(i).targetPosition

(***************************************************************************)
(* C33.  The avoidance term.                                               *)
(***************************************************************************)
\* the AI step of agent i reaches the end of updateDinosaurAI: the agent is
\* alive and not a predator on lava
ReachesAvoidance(i) ==
  /\ detectedHands = steps.hands
  /\ BeforeAI(i).isAlive
  /\ ~(isPredator(BeforeAI(i).species)
         /\ queryTerrain(BeforeAI(i).position).isLava)

\* the records the state machine of step i may leave the agent with, before
\* the avoidance
StateMachineOutcomes(i) ==
  LET ds == RegistryBeforeAI(i)
      d1 == [BeforeAI(i) EXCEPT !.stateTimer = TimerRead(i)]
      prey == findNearestPrey(ds, d1)
  IN  IF isHerbivore(d1.species) THEN HerbivoreAI(ds, d1)
      ELSE IF prey.found THEN {Hunt(ds, d1, prey.preyId)}
      ELSE IF d1.aiState = AI_ATTACKING
      THEN IF d1.stateTimer > Sec10(10)
           THEN {ResolveAttack(Put(ds, i, d1), i)[i]}
           ELSE {d1}
      ELSE Patrol(d1)

\* C33: an AI step that reaches the end of updateDinosaurAI leaves the
\* agent as the state machine left it, with the avoidance vector times
\* walkSpeed times 0.5 added once to the velocity the state machine chose
\* when the vector is not negligible, and with that velocity as it is when
\* the vector is negligible.
C33_AvoidanceAddedOnce ==
  \A i \in Stepped :
    ReachesAvoidance(i) =>
      \E d \in StateMachineOutcomes(i) :
        AfterAI(i) = [d EXCEPT !.velocity = VAdd(@, AvoidanceVelocity(d))]

\* a running agent next to lava: its velocity is neither the state
\* machine's nor the avoidance term alone
C33_RanAndAvoided ==
  \E i \in Stepped :
    /\ ReachesAvoidance(i)
    /\ AvoidanceVelocity(BeforeAI(i)) # Zero
    /\ AfterAI(i).currentAction = ACTION_RUN
    /\ AfterAI(i).velocity # AvoidanceVelocity(BeforeAI(i))
    /\ \E d \in StateMachineOutcomes(i) :
         /\ d.velocity # Zero
         /\ AfterAI(i).velocity = VAdd(d.velocity, AvoidanceVelocity(d))

\* a predator took the avoidance term
C33_PredatorAvoided ==
  \E i \in Stepped :
    /\ ReachesAvoidance(i) /\ isPredator(BeforeAI(i).species)
    /\ AvoidanceVelocity(BeforeAI(i)) # Zero

(***************************************************************************)
(* C34.  The velocity from one tick to the next.                           *)
(***************************************************************************)
\* runSpeed + 0.5 x walkSpeed of the agent's species
TopSpeed(d) ==
  getSpeciesInfo(d.species).runSpeed + getSpeciesInfo(d.species).walkSpeed \div 2

\* C34: at the end of every AI step an alive agent is no faster than
\* runSpeed + 0.5 x walkSpeed, and an Idle or Grazing herbivore whose
\* avoidance vector is negligible stands still.
C34_AvoidanceDoesNotAccumulate ==
  \A i \in Stepped :
    AfterAI(i).isAlive =>
      /\ Mag2(AfterAI(i).velocity) <= TopSpeed(AfterAI(i)) * TopSpeed(AfterAI(i))
      /\ (/\ isHerbivore(AfterAI(i).species)
          /\ AfterAI(i).aiState \in {AI_IDLE, AI_GRAZING}
          /\ Negligible(calculateAvoidanceVector(AfterAI(i)), UnitScale)) =>
           AfterAI(i).velocity = Zero

(***************************************************************************)
(* C35.  The animation of an agent that is not Dying.                      *)
(***************************************************************************)
\* the frame accumulator of step i once dt has been added to it
AccumulatorRead(i) == AfterAI(i).animationTimer + steps.dt

\* the frame after the current one, wrapping at the frame count of the action
NextFrameOf(d) ==
  IF d.currentFrame + 1 >= getSpeciesInfo(d.species).framesPerAction[d.currentAction]
  THEN 0 ELSE d.currentFrame + 1

\* C35: the Animation step of an agent that is not Dying adds dt to the
\* accumulator; when the sum exceeds seconds-per-frame the frame advances by
\* one, wrapping to 0 at the frame count of the action; and the accumulator
\* it leaves is below seconds-per-frame.
C35_AccumulatorBelowFrameTime ==
  \A i \in Stepped :
    AfterAI(i).aiState # AI_DYING =>
      /\ AfterAnimation(i).currentFrame =
           IF AccumulatorRead(i) > AfterAI(i).frameTime
           THEN NextFrameOf(AfterAI(i)) ELSE AfterAI(i).currentFrame
      /\ AfterAnimation(i).animationTimer < AfterAI(i).frameTime

(***************************************************************************)
(* C36.  The frames and the alpha of a Dying agent.                        *)
(***************************************************************************)
\* step i of the last tick turned agent j from not Dying into Dying
BecameDying(i, j) ==
  /\ steps.log[i].before[j].aiState # AI_DYING
  /\ steps.log[i].ai[j].aiState = AI_DYING

\* the Animation step of agent i found it Dying
DyingStep(i) == AfterAI(i).aiState = AI_DYING

\* the frame timer of the Dying agent i ran out in its Animation step
DieFrameDue(i) == AccumulatorRead(i) >= AfterAI(i).frameTime

\* C36: an agent becomes Dying on frame 0 with alpha 1; while it is Dying
\* its frame never decreases within a tick, the Animation step advances it by
\* one when the frame timer runs out and holds it on the last frame of the
\* Die action, and alpha is 1 up to the last Die frame and is lowered only by
\* an Animation step that finds the agent on that frame.
C36_DieFramesOnlyAdvance ==
  /\ \A i \in Stepped : \A j \in DOMAIN steps.log[i].ai :
       BecameDying(i, j) =>
         /\ steps.log[i].ai[j].currentFrame = 0
         /\ steps.log[i].ai[j].alpha = AlphaScale
  /\ \A i \in Stepped :
       AtStart(i).aiState = AI_DYING =>
         /\ AfterAI(i) = AtStart(i)
         /\ AtEnd(i).currentFrame >= AtStart(i).currentFrame
  /\ \A i \in Stepped :
       DyingStep(i) =>
         /\ AfterAnimation(i).currentFrame =
              IF DieFrameDue(i)
              THEN Min(AfterAI(i).currentFrame + 1, LastDieFrame(AfterAI(i)))
              ELSE AfterAI(i).currentFrame
         /\ AfterAI(i).currentFrame < LastDieFrame(AfterAI(i)) =>
              /\ AfterAI(i).alpha = AlphaScale
              /\ AfterAnimation(i).alpha = AlphaScale
         /\ AfterAnimation(i).alpha # AfterAI(i).alpha =>
              /\ AfterAI(i).currentFrame = LastDieFrame(AfterAI(i))
              /\ DieFrameDue(i)
              /\ AfterAnimation(i).alpha < AfterAI(i).alpha

\* a Dying agent advanced to the last Die frame with alpha still 1
C36_ReachedLastFrameOpaque ==
  \E i \in Stepped :
    /\ DyingStep(i) /\ DieFrameDue(i)
    /\ AfterAI(i).currentFrame < LastDieFrame(AfterAI(i))
    /\ AfterAnimation(i).currentFrame = LastDieFrame(AfterAI(i))
    /\ AfterAnimation(i).alpha = AlphaScale

\* a Dying agent held on the last Die frame started to fade
C36_FadeBegan ==
  \E i \in Stepped :
    /\ DyingStep(i)
    /\ AfterAI(i).currentFrame = LastDieFrame(AfterAI(i))
    /\ AfterAI(i).alpha = AlphaScale
    /\ AfterAnimation(i).currentFrame = LastDieFrame(AfterAI(i))
    /\ AfterAnimation(i).alpha < AlphaScale

(***************************************************************************)
(* C37.  The countdown of a Dead agent.                                    *)
(***************************************************************************)
\* the last tick found agent i Dead
FoundDead(i) == ~AtStart(i).isAlive /\ AtStart(i).aiState = AI_DEAD

\* the last tick made agent i Dead
BecameDead(i) == AtStart(i).aiState # AI_DEAD /\ AtEnd(i).aiState = AI_DEAD

\* what is left of the countdown of agent i once the tick length is taken off
CountdownLeft(i) == BeforeAI(i).respawnTimer - steps.dt

\* C37: the AI step of a Dead agent only takes the tick length off its
\* respawn countdown, and respawns the agent exactly when the countdown is
\* then 0 or below; the tick that makes an agent Dead leaves the countdown at
\* the full delay, so a Dead agent between ticks has a countdown in
\* (0, respawnDelay] that stands for the delay less the ticks elapsed since.
C37_RespawnAfterFullDelay ==
  /\ \A i \in DOMAIN dinosaurs :
       dinosaurs[i].aiState = AI_DEAD =>
         /\ ~dinosaurs[i].isAlive
         /\ 0 < dinosaurs[i].respawnTimer
         /\ dinosaurs[i].respawnTimer <= respawnDelay
  /\ \A i \in Stepped :
       /\ BecameDead(i) =>
            /\ AfterAI(i) = AtStart(i)
            /\ AtEnd(i).respawnTimer = respawnDelay
       /\ FoundDead(i) =>
            /\ BeforeAI(i) = AtStart(i)
            /\ IF CountdownLeft(i) <= 0
               THEN /\ AfterAI(i).isAlive /\ AfterAI(i).aiState = AI_IDLE
                    /\ AtEnd(i).isAlive
               ELSE /\ AfterAI(i) =
                         [BeforeAI(i) EXCEPT !.respawnTimer = CountdownLeft(i)]
                    /\ AtEnd(i).aiState = AI_DEAD
                    /\ AtEnd(i).respawnTimer = CountdownLeft(i)

\* a Dead agent whose countdown earlier ticks had already lowered respawned
C37_RespawnedAfterSeveralTicks ==
  \E i \in Stepped :
    /\ FoundDead(i)
    /\ BeforeAI(i).respawnTimer < respawnDelay
    /\ CountdownLeft(i) <= 0
    /\ AtEnd(i).isAlive

\* a Dead agent stayed Dead through a tick shorter than what was left
C37_StayedDead ==
  \E i \in Stepped :
    FoundDead(i) /\ CountdownLeft(i) > 0 /\ AtEnd(i).aiState = AI_DEAD

(***************************************************************************)
(* C38.  The herd centroid.                                                *)
(***************************************************************************)
\* agent j is a herd-mate of the scanned agent: alive, of its species, not
\* the agent itself, and nearer to it than the herd radius
HerdMate(j) ==
  /\ dinosaurs[j].isAlive
  /\ dinosaurs[j].species = ScanSubject.species
  /\ dinosaurs[j].id # ScanSubject.id
  /\ Mag2(VSub(dinosaurs[j].position, ScanSubject.position))
       < herdRadius * herdRadius

HerdMates == {j \in DOMAIN dinosaurs : HerdMate(j)}

\* the sum of one coordinate over the herd-mates
RECURSIVE SumOver(_, _)
SumOver(js, c) ==
  IF js = {} THEN 0
  ELSE LET j == CHOOSE k \in js : TRUE
       IN  dinosaurs[j].position[c] + SumOver(js \ {j}, c)

\* C38: the herd centroid of an agent is its own position when it has no
\* herd-mate, and otherwise, coordinate by coordinate, the sum over its
\* herd-mates divided by their number.
C38_HerdCentroidIsMean ==
  ThreatScanned =>
    IF HerdMates = {} THEN scan.herdCenter = ScanSubject.position
    ELSE \A c \in {"x", "y", "z"} :
           scan.herdCenter[c] = TDiv(SumOver(HerdMates, c), Cardinality(HerdMates))

\* the centroid of two herd-mates at different places lies between them
C38_MeanOfTwo ==
  /\ ThreatScanned
  /\ \E j, k \in HerdMates :
       /\ dinosaurs[j].position.x < scan.herdCenter.x
       /\ scan.herdCenter.x < dinosaurs[k].position.x

\* an agent of the species at the herd radius itself stayed outside the herd
C38_AtRadiusLeftOut ==
  /\ ThreatScanned
  /\ HerdMates # {}
  /\ \E j \in DOMAIN dinosaurs \ HerdMates :
       /\ dinosaurs[j].isAlive /\ dinosaurs[j].species = ScanSubject.species
       /\ Mag2(VSub(dinosaurs[j].position, ScanSubject.position))
            = herdRadius * herdRadius

(***************************************************************************)
(* C39.  The animation action follows the AI state.                        *)
(***************************************************************************)
\* the action each AI state is shown with
ActionOf(state) ==
  CASE state \in {AI_IDLE, AI_GRAZING}    -> ACTION_IDLE
    [] state = AI_WANDERING               -> ACTION_WALK
    [] state \in {AI_FLEEING, AI_HUNTING} -> ACTION_RUN
    [] state = AI_ATTACKING               -> ACTION_ATTACK
    [] state \in {AI_DYING, AI_DEAD}      -> ACTION_DIE

ActionFitsState(d) == d.currentAction = ActionOf(d.aiState)

\* C39: every agent has the action of its AI state - Idle and Grazing show
\* Idle, Wandering shows Walk, Fleeing and Hunting show Run, Attacking shows
\* Attack, Dying and Dead show Die - between ticks and after every step
\* inside a tick, so that the action TakeDamage never occurs.
C39_ActionFollowsState ==
  /\ \A i \in DOMAIN dinosaurs : ActionFitsState(dinosaurs[i])
  /\ \A i \in Stepped :
       \A j \in DOMAIN steps.log[i].ai :
         /\ ActionFitsState(steps.log[i].before[j])
         /\ ActionFitsState(steps.log[i].ai[j])
         /\ ActionFitsState(steps.log[i].anim[j])

\* a predator that was chasing came within reach and attacked
C39_ChaseTurnedToAttack ==
  \E i \in Stepped :
    /\ BeforeAI(i).aiState = AI_HUNTING
    /\ BeforeAI(i).currentAction = ACTION_RUN
    /\ AfterAI(i).aiState = AI_ATTACKING
    /\ AfterAI(i).currentAction = ACTION_ATTACK

\* the attack killed a herbivore that was running away
C39_KilledOnTheRun ==
  \E i \in Stepped : \E j \in DOMAIN steps.log[i].ai :
    /\ steps.log[i].before[j].aiState = AI_FLEEING
    /\ steps.log[i].before[j].currentAction = ACTION_RUN
    /\ steps.log[i].ai[j].aiState = AI_DYING
    /\ steps.log[i].ai[j].currentAction = ACTION_DIE

\* an agent that was Dead is alive again and Idle
C39_RespawnedIdle ==
  \E i \in Stepped :
    /\ BeforeAI(i).aiState = AI_DEAD /\ BeforeAI(i).currentAction = ACTION_DIE
    /\ AfterAI(i).aiState = AI_IDLE /\ AfterAI(i).currentAction = ACTION_IDLE

(***************************************************************************)
(* C40.  The refresh throttle of TerrainQuery.                             *)
(***************************************************************************)
\* the step left the cached grids and their validity alone
CacheKept ==
  /\ terrainQuery'.terrainGrid = terrainQuery.terrainGrid
  /\ terrainQuery'.waterGrid = terrainQuery.waterGrid
  /\ terrainQuery'.dataValid = terrainQuery.dataValid

\* the step was a call of update that counted or refreshed: only update
\* touches the counter, the grids and the validity
UpdateCounted ==
  terrainQuery'.updateCounter # terrainQuery.updateCounter \/ ~CacheKept

\* the calls of update since the last refresh, this one included
CallsSinceRefresh == terrainQuery.updateCounter + 1

\* the step refreshed the cache and started the count again
RefreshedNow == terrainQuery'.updateCounter = 0 /\ terrainQuery'.dataValid

\* the step only counted
CountedOn ==
  /\ terrainQuery'.updateCounter = CallsSinceRefresh
  /\ CacheKept

\* what holds of the throttle between calls
ThrottleState ==
  /\ terrainQuery.updateFrequency >= 1
  /\ terrainQuery.updateCounter >= 0
  /\ ~terrainQuery.dataValid =>
       /\ \A k \in DOMAIN terrainQuery.terrainGrid : terrainQuery.terrainGrid[k] = 0
       /\ \A k \in DOMAIN terrainQuery.waterGrid : terrainQuery.waterGrid[k] = 0
  /\ terrainQuery.dataValid => terrainQuery.waterTable

\* C40 as stated: a call of update refreshes the cache exactly when it is
\* the updateFrequency-th call since the last refresh and only counts
\* otherwise; updateFrequency is at least 1; the data is not valid before
\* the first refresh; and valid data never becomes invalid.
C40_RefreshOnExactlyEveryNth ==
  /\ []ThrottleState
  /\ [][/\ terrainQuery.dataValid => terrainQuery'.dataValid
        /\ UpdateCounted =>
             /\ terrainQuery.waterTable
             /\ IF CallsSinceRefresh = terrainQuery.updateFrequency
                THEN RefreshedNow ELSE CountedOn]_vars

\* C40, amended: a call of update refreshes the cache when it is at least
\* the updateFrequency-th call since the last refresh, which is later than
\* the updateFrequency-th when the frequency was lowered below the count,
\* and only counts otherwise; updateFrequency is at least 1; the data is not
\* valid before the first refresh; and valid data never becomes invalid.
C40_RefreshWhenCountReachesFrequency ==
  /\ []ThrottleState
  /\ [][/\ terrainQuery.dataValid => terrainQuery'.dataValid
        /\ UpdateCounted =>
             /\ terrainQuery.waterTable
             /\ IF CallsSinceRefresh >= terrainQuery.updateFrequency
                THEN RefreshedNow ELSE CountedOn]_vars

\* the first refresh came with the fifth call of update, at the frequency
\* the constructor sets
C40_RefreshedOnFifthCall ==
  /\ terrainQuery.waterTable /\ terrainQuery.dataValid
  /\ terrainQuery.updateFrequency = 5
  /\ terrainQuery.updateCounter = 0

\* the frequency was lowered to or below the number of calls counted
C40_FrequencyLoweredBelowCount ==
  /\ terrainQuery.waterTable
  /\ terrainQuery.updateCounter >= terrainQuery.updateFrequency

====
